---- MODULE Spec2Model ----
(***************************************************************************)
(* A model of Aisle 0.1.0: the conversation history manager (_messages.py), *)
(* the backend configuration (_backend.py), the in-memory log (_logs.py),   *)
(* the helpers of _general.py, the panel builder (_source.py) and the two   *)
(* notebook magics (_main.py).                                              *)
(*                                                                          *)
(* Python values are records [t |-> type name, v |-> Int, s |-> STRING]:    *)
(* an int carries v, a float carries v in tenths (1.5 is 15), a bool        *)
(* carries v in {0, 1}, a str carries s.  The float NaN has t = "nan".      *)
(* Wall-clock timestamps are left out of log entries and rendered headers.  *)
(***************************************************************************)
EXTENDS Integers, Sequences, FiniteSets, TLC

VARIABLES
    messages,   \* _main.messages: the Messages instance (list and counters)
    backend,    \* _main.backend: the Backend instance (six fields)
    logs,       \* _main.logs: the Logs instance (the list of entries)
    last,       \* the last operation: its name, its arguments, what it returned
    trace,      \* what the last operation did, in order (calls, requests, output)
    clears,     \* how many times Messages.clear has run
    ui,         \* the settings panel on display: its widgets and their values
    twin        \* a second Messages instance: the counters it holds itself

vars == <<messages, backend, logs, last, trace, clears, ui, twin>>

-----------------------------------------------------------------------------
(* Bounds of the model.                                                    *)

MaxHistory == 3
MaxSession == 3
MaxLogs == 8
MaxDirectLogs == 1
MaxPanelLogs == 2
MaxShownLogs == 5

-----------------------------------------------------------------------------
(* Python values.                                                          *)

PyInt(n) == [t |-> "int", v |-> n, s |-> ""]
PyFloat(tenths) == [t |-> "float", v |-> tenths, s |-> ""]
PyNaN == [t |-> "nan", v |-> 0, s |-> ""]
PyBool(b) == [t |-> "bool", v |-> IF b THEN 1 ELSE 0, s |-> ""]
PyStr(str) == [t |-> "str", v |-> 0, s |-> str]
PyNone == [t |-> "NoneType", v |-> 0, s |-> ""]

\* isinstance(x, int): bool is a subclass of int.
IsInstanceInt(x) == x.t \in {"int", "bool"}
IsInstanceFloat(x) == x.t \in {"float", "nan"}
IsInstanceBool(x) == x.t = "bool"
IsInstanceStr(x) == x.t = "str"

\* Truth value of a Python value (if x:).
Truthy(x) ==
    CASE x.t = "NoneType" -> FALSE
      [] x.t = "str" -> x.s # ""
      [] x.t = "nan" -> TRUE
      [] OTHER -> x.v # 0

\* The value of a number in tenths (an int or a bool counts whole units).
Tenths(x) == IF x.t = "float" THEN x.v ELSE x.v * 10

\* a < b on numbers; every comparison with NaN is False.
PyLt(a, b) == a.t # "nan" /\ b.t # "nan" /\ Tenths(a) < Tenths(b)

\* min(a, b) and max(a, b) of the builtins: the first argument is kept unless
\* the second is strictly smaller (larger).
PyMin(a, b) == IF PyLt(b, a) THEN b ELSE a
PyMax(a, b) == IF PyLt(a, b) THEN b ELSE a

Digits == <<"0", "1", "2", "3", "4", "5", "6", "7", "8", "9">>

RECURSIVE NatStr(_)
NatStr(n) == IF n < 10 THEN Digits[n + 1] ELSE NatStr(n \div 10) \o Digits[(n % 10) + 1]

IntStr(n) == IF n < 0 THEN "-" \o NatStr(0 - n) ELSE NatStr(n)

Abs(n) == IF n < 0 THEN 0 - n ELSE n

\* str(x) as an f-string formats it.
Format(x) ==
    CASE x.t = "int" -> IntStr(x.v)
      [] x.t = "float" ->
            (IF x.v < 0 THEN "-" ELSE "") \o NatStr(Abs(x.v) \div 10) \o "." \o NatStr(Abs(x.v) % 10)
      [] x.t = "nan" -> "nan"
      [] x.t = "bool" -> (IF x.v = 1 THEN "True" ELSE "False")
      [] x.t = "str" -> x.s
      [] OTHER -> "None"

\* What a call gives back: a (success, message) tuple, None, or an exception
\* that leaves the call.
Ret(ok, msg) == [k |-> "tuple", ok |-> ok, msg |-> msg, exc |-> ""]
RetNone == [k |-> "none", ok |-> TRUE, msg |-> "", exc |-> ""]
Raise(exc) == [k |-> "raise", ok |-> FALSE, msg |-> "", exc |-> exc]

\* An event of the trace.
Ev(e, d) == [e |-> e, d |-> d]

RECURSIVE CountEv(_, _)
CountEv(tr, e) ==
    IF tr = <<>> THEN 0
    ELSE (IF Head(tr).e = e THEN 1 ELSE 0) + CountEv(Tail(tr), e)

-----------------------------------------------------------------------------
(* _general.py                                                             *)

LowerChar(c) ==
    CASE c = "G" -> "g" [] c = "I" -> "i" [] c = "F" -> "f" [] c = "J" -> "j"
      [] c = "P" -> "p" [] c = "N" -> "n" [] c = "E" -> "e" [] c = "A" -> "a"
      [] c = "C" -> "c" [] c = "T" -> "t"
      [] OTHER -> c

RECURSIVE lower(_)
lower(str) ==
    IF Len(str) = 0 THEN ""
    ELSE LowerChar(SubSeq(str, 1, 1)) \o lower(SubSeq(str, 2, Len(str)))

endswith(str, suffix) ==
    /\ Len(str) >= Len(suffix)
    /\ SubSeq(str, Len(str) - Len(suffix) + 1, Len(str)) = suffix

startswith(str, prefix) ==
    /\ Len(str) >= Len(prefix)
    /\ SubSeq(str, 1, Len(prefix)) = prefix

\* str.strip() is empty: every character is white space.
IsBlank(str) == \A i \in 1..Len(str) : SubSeq(str, i, i) = " "

valid_extensions == <<".jpg", ".jpeg", ".png">>

\* The base64 text of the bytes of the file at path.
b64encode(path) == "base64(" \o path \o ")"

\* image2base64 asking the file system before it looks at the extension.
image2base64_exists_first(image_path, fstat) ==
    IF ~IsInstanceStr(image_path) \/ IsBlank(image_path.s)
    THEN [ok |-> FALSE, result |-> "The specified image path is invalid.", fs |-> <<>>]
    ELSE IF fstat = "absent"
    THEN [ok |-> FALSE,
          result |-> "Image file '" \o image_path.s \o "' not found.",
          fs |-> <<"isfile">>]
    ELSE IF ~(\E i \in 1..Len(valid_extensions) :
                 endswith(lower(image_path.s), valid_extensions[i]))
    THEN [ok |-> FALSE,
          result |-> "The file '" \o image_path.s \o "' is not a valid image format. "
                     \o "Supported formats are: .jpg, .jpeg, .png.",
          fs |-> <<"isfile">>]
    ELSE IF fstat = "unreadable"
    THEN [ok |-> FALSE,
          result |-> "Error occurred while opening the file: IOError",
          fs |-> <<"isfile", "open">>]
    ELSE [ok |-> TRUE, result |-> b64encode(image_path.s), fs |-> <<"isfile", "open">>]

\* fstat is what the file system holds at image_path when the call is made:
\* "file" (readable), "unreadable" (a file that open() refuses) or "absent".
\* The result carries which file-system calls were made.
image2base64(image_path, fstat) ==
    IF ~IsInstanceStr(image_path) \/ IsBlank(image_path.s)
    THEN [ok |-> FALSE, result |-> "The specified image path is invalid.", fs |-> <<>>]
    ELSE IF ~(\E i \in 1..Len(valid_extensions) :
                 endswith(lower(image_path.s), valid_extensions[i]))
    THEN [ok |-> FALSE,
          result |-> "The file '" \o image_path.s \o "' is not a valid image format. "
                     \o "Supported formats are: .jpg, .jpeg, .png.",
          fs |-> <<>>]
    ELSE IF fstat = "absent"
    THEN [ok |-> FALSE,
          result |-> "Image file '" \o image_path.s \o "' not found.",
          fs |-> <<"isfile">>]
    ELSE IF fstat = "unreadable"
    THEN [ok |-> FALSE,
          result |-> "Error occurred while opening the file: IOError",
          fs |-> <<"isfile", "open">>]
    ELSE [ok |-> TRUE, result |-> b64encode(image_path.s), fs |-> <<"isfile", "open">>]

\* The response to GET {url}api/tags, as requests sees it: kind is "ok" or the
\* exception that requests.get, raise_for_status or json() raises
\* ("JSONDecodeError" is requests' own, a RequestException and a ValueError;
\* "ValueError" is a decoder error that is no RequestException).  body is the
\* decoded JSON: [type |-> "dict", models |-> the names] or a value of another
\* shape.
get_model_list(url, resp) ==
    IF resp.kind \in {"ConnectionError", "Timeout", "HTTPError", "JSONDecodeError"}
    THEN [exc |-> "", ok |-> FALSE, names |-> <<>>,
          msg |-> "Error occurred while accessing model list: " \o resp.kind]
    ELSE IF resp.kind = "ValueError"
    THEN [exc |-> "", ok |-> FALSE, names |-> <<>>,
          msg |-> "Error occurred while parsing model list: " \o resp.kind]
    ELSE IF resp.body.type # "dict"
    THEN [exc |-> "AttributeError", ok |-> FALSE, names |-> <<>>, msg |-> ""]
    ELSE [exc |-> "", ok |-> TRUE, names |-> resp.body.models, msg |-> ""]

\* The colormap index matplotlib looks up for max(0, min(temperature, 1)):
\* a float x in [0, 1] is scaled to int(x * 256), 1.0 giving 255; the int 0 or
\* 1 that max/min return for an out-of-range temperature is taken as an index.
temperature2color(temperature) ==
    LET normalized_value == PyMax(PyInt(0), PyMin(temperature, PyInt(1)))
        index == IF normalized_value.t = "int" THEN normalized_value.v
                 ELSE IF normalized_value.v >= 10 THEN 255
                 ELSE (normalized_value.v * 256) \div 10
    IN "plasma[" \o NatStr(index) \o "]"

-----------------------------------------------------------------------------
(* _logs.py                                                                *)

\* self is the Logs instance: [logs |-> the sequence of entries].  Each call
\* leaves an event "log" in the trace, and what it prints as "console".
Entry(level, message) == [level |-> level, message |-> message]

\* info, were it to keep only the newest entries of a long log.
info_pruning(self, message) ==
    [self |-> [self EXCEPT !.logs = Append(IF Len(@) >= 2 THEN Tail(@) ELSE @, Entry("I", message))],
     trace |-> <<Ev("log", Entry("I", message))>>]

info(self, message) ==
    [self |-> [self EXCEPT !.logs = Append(@, Entry("I", message))],
     trace |-> <<Ev("log", Entry("I", message))>>]

warning(self, message) ==
    [self |-> [self EXCEPT !.logs = Append(@, Entry("W", message))],
     trace |-> <<Ev("log", Entry("W", message)), Ev("console", "[W] " \o message)>>]

error(self, message) ==
    [self |-> [self EXCEPT !.logs = Append(@, Entry("E", message))],
     trace |-> <<Ev("log", Entry("E", message)), Ev("console", "[E] " \o message)>>]

\* logs.info(message) if success else logs.error(message)
log_outcome(self, success, message) ==
    IF success THEN info(self, message) ELSE error(self, message)

\* seq[start:] for a Python list: a negative start counts from the end.
SliceFrom(seq, start) ==
    LET from == IF start < 0 THEN (IF Len(seq) + start < 0 THEN 0 ELSE Len(seq) + start)
                ELSE (IF start > Len(seq) THEN Len(seq) ELSE start)
    IN SubSeq(seq, from + 1, Len(seq))

LevelColor(level) ==
    CASE level = "I" -> "32" [] level = "W" -> "33" [] level = "E" -> "31" [] OTHER -> "30"

\* Logs.show: the lines it prints, the header first.
logs_show(self, item_number) ==
    IF self.logs = <<>>
    THEN <<Ev("print", [kind |-> "placeholder", n |-> 0, color |-> "90", entry |-> Entry("", ""), text |-> "(No logs available)"])>>
    ELSE LET recent_logs == IF Len(self.logs) > item_number
                            THEN SliceFrom(self.logs, 0 - item_number)
                            ELSE self.logs
         IN <<Ev("print", [kind |-> "header", n |-> item_number, color |-> "90", entry |-> Entry("", ""),
                           text |-> "(Displaying the most recent " \o IntStr(item_number) \o " records)"])>>
            \o [i \in 1..Len(recent_logs) |->
                   Ev("print", [kind |-> "entry", n |-> i, color |-> LevelColor(recent_logs[i].level),
                                entry |-> recent_logs[i],
                                text |-> "[" \o recent_logs[i].level \o "] " \o recent_logs[i].message])]

-----------------------------------------------------------------------------
(* _backend.py                                                             *)

BackendDefault ==
    [url |-> "http://example.com/aisle/",
     model |-> "model:default",
     stream |-> FALSE,
     seed |-> PyInt(0),
     temperature |-> PyFloat(4),
     reproducible |-> PyBool(FALSE)]

IsMember(x, seq) == \E i \in 1..Len(seq) : seq[i] = x

\* update_model taking any name once the query is answered.
update_model_unlisted(self, new_model, resp) ==
    LET got == get_model_list(self.url, resp)
        tr == <<Ev("GET", self.url \o "api/tags")>>
    IN IF got.exc # "" THEN [self |-> self, ret |-> Raise(got.exc), trace |-> tr]
       ELSE IF ~got.ok THEN [self |-> self, ret |-> Ret(FALSE, got.msg), trace |-> tr]
       ELSE [self |-> [self EXCEPT !.model = new_model],
             ret |-> Ret(TRUE, "Changed backend model to " \o new_model \o "."),
             trace |-> tr]

\* Every update gives [self, ret, trace]; resp is the backend's answer to the
\* model-list query.
update_model(self, new_model, resp) ==
    LET got == get_model_list(self.url, resp)
        tr == <<Ev("GET", self.url \o "api/tags")>>
    IN IF got.exc # "" THEN [self |-> self, ret |-> Raise(got.exc), trace |-> tr]
       ELSE IF ~got.ok THEN [self |-> self, ret |-> Ret(FALSE, got.msg), trace |-> tr]
       ELSE IF IsMember(new_model, got.names)
       THEN [self |-> [self EXCEPT !.model = new_model],
             ret |-> Ret(TRUE, "Changed backend model to " \o new_model \o "."),
             trace |-> tr]
       ELSE [self |-> self,
             ret |-> Ret(FALSE, "Model " \o new_model \o " is invalid, update failed."),
             trace |-> tr]

\* update_seed switching reproducibility on along with the seed.
update_seed_enables(self, new_seed) ==
    IF ~IsInstanceInt(new_seed)
    THEN [self |-> self,
          ret |-> Ret(FALSE, "Seed " \o Format(new_seed) \o " type error, must be an integer (int)."),
          trace |-> <<>>]
    ELSE [self |-> [self EXCEPT !.seed = new_seed, !.reproducible = PyBool(TRUE)],
          ret |-> Ret(TRUE, "Seed is now set to " \o Format(new_seed) \o "."),
          trace |-> <<>>]

update_seed(self, new_seed) ==
    IF ~IsInstanceInt(new_seed)
    THEN [self |-> self,
          ret |-> Ret(FALSE, "Seed " \o Format(new_seed) \o " type error, must be an integer (int)."),
          trace |-> <<>>]
    ELSE [self |-> [self EXCEPT !.seed = new_seed],
          ret |-> Ret(TRUE, "Seed is now set to " \o Format(new_seed) \o "."),
          trace |-> <<>>]

\* update_reproducible storing the candidate before its type is looked at.
update_reproducible_eager(self, new_reproducible) ==
    [self |-> [self EXCEPT !.reproducible = new_reproducible],
     ret |-> IF IsInstanceBool(new_reproducible)
             THEN Ret(TRUE, "Conversation reproducibility has been set to "
                            \o (IF Truthy(new_reproducible) THEN "enabled" ELSE "disabled") \o ".")
             ELSE Ret(FALSE, "Reproducibility " \o Format(new_reproducible)
                             \o " type error, must be boolean (bool)."),
     trace |-> <<>>]

update_reproducible(self, new_reproducible) ==
    IF ~IsInstanceBool(new_reproducible)
    THEN [self |-> self,
          ret |-> Ret(FALSE, "Reproducibility " \o Format(new_reproducible)
                             \o " type error, must be boolean (bool)."),
          trace |-> <<>>]
    ELSE [self |-> [self EXCEPT !.reproducible = new_reproducible],
          ret |-> Ret(TRUE, "Conversation reproducibility has been set to "
                            \o (IF Truthy(new_reproducible) THEN "enabled" ELSE "disabled") \o "."),
          trace |-> <<>>]

\* The clamp without its upper end.
clamp_temperature_unbounded(new_temperature) == PyMax(PyFloat(0), new_temperature)

\* value = max(0., min(new_temperature, 1.))
clamp_temperature(new_temperature) == PyMax(PyFloat(0), PyMin(new_temperature, PyFloat(10)))

update_temperature(self, new_temperature) ==
    IF ~IsInstanceFloat(new_temperature)
    THEN [self |-> self,
          ret |-> Ret(FALSE, "Temperature " \o Format(new_temperature) \o " type error, must be a float."),
          trace |-> <<>>]
    ELSE LET value == clamp_temperature(new_temperature)
         IN [self |-> [self EXCEPT !.temperature = value],
             ret |-> Ret(TRUE, "Temperature is now set to " \o Format(value) \o "."),
             trace |-> <<>>]

\* Backend.show: the rows of the settings table, in order.
backend_show(self) ==
    <<Ev("display", <<"model", "temperature", "reproducible", "seed">>)>>

-----------------------------------------------------------------------------
(* _messages.py                                                            *)

\* A message is a JSON value: a dict with the keys it holds, or (a reply of
\* the backend only) a value that is no dict.
Dict(keys, role, content, images) ==
    [type |-> "dict", keys |-> keys, role |-> role, content |-> content, images |-> images]
NonDict(type) ==
    [type |-> type, keys |-> {}, role |-> "", content |-> "", images |-> <<>>]

\* The Messages instance after construction.
MessagesInit ==
    [messages |-> <<>>, session_counter |-> 1, user_counter |-> 0, ai_counter |-> 0]

\* The counters an instance holds: session_counter, user_counter and
\* ai_counter are class attributes that `+=` and `=` rebind on the instance.
Counters(self) ==
    [session_counter |-> self.session_counter,
     user_counter |-> self.user_counter,
     ai_counter |-> self.ai_counter]

\* An instance as its methods see it: the list `messages` of the class, which
\* append and clear change in place, with the counters of the instance.
Bound(shared, own) ==
    [messages |-> shared,
     session_counter |-> own.session_counter,
     user_counter |-> own.user_counter,
     ai_counter |-> own.ai_counter]

\* The counters kept on the class, where every instance reads them.
Rebound_on_class(own, other, r) ==
    [shared |-> r.self.messages, own |-> Counters(r.self), other |-> Counters(r.self)]

\* Where a method call that returned r leaves the list of the class, the
\* counters of the instance it was called on and those of another instance.
Rebound(own, other, r) ==
    [shared |-> r.self.messages, own |-> Counters(r.self), other |-> other]

\* self.messages.insert(0, message) in place of append.
Messages_add_front(self, message) == [self EXCEPT !.messages = <<message>> \o @]

\* __add writing over the newest message of a history that has one.
Messages_add_replacing(self, message) ==
    [self EXCEPT !.messages = IF @ = <<>> THEN <<message>>
                              ELSE Append(SubSeq(@, 1, Len(@) - 1), message)]

Messages_add(self, message) == [self EXCEPT !.messages = Append(@, message)]

\* assemble counting the user message before the image is encoded.
assemble_counts_first(self, content, image_path, fstat) ==
    LET user_message == Dict({"role", "content"}, "user", content, <<>>)
        img == image2base64(image_path, fstat)
    IN IF Truthy(image_path) /\ ~img.ok
       THEN [self |-> [self EXCEPT !.user_counter = @ + 1],
             ret |-> Ret(FALSE, img.result), trace |-> <<Ev("assemble", content)>>]
       ELSE LET message == IF Truthy(image_path)
                           THEN Dict({"role", "content", "images"}, "user", content, <<img.result>>)
                           ELSE user_message
                added == Messages_add(self, message)
            IN [self |-> [added EXCEPT !.user_counter = @ + 1],
                ret |-> Ret(TRUE, "User content has been loaded."),
                trace |-> <<Ev("assemble", content)>>]

assemble(self, content, image_path, fstat) ==
    LET user_message == Dict({"role", "content"}, "user", content, <<>>)
        img == image2base64(image_path, fstat)
    IN IF Truthy(image_path) /\ ~img.ok
       THEN [self |-> self, ret |-> Ret(FALSE, img.result), trace |-> <<Ev("assemble", content)>>]
       ELSE LET message == IF Truthy(image_path)
                           THEN Dict({"role", "content", "images"}, "user", content, <<img.result>>)
                           ELSE user_message
                added == Messages_add(self, message)
            IN [self |-> [added EXCEPT !.user_counter = @ + 1],
                ret |-> Ret(TRUE, "User content has been loaded."),
                trace |-> <<Ev("assemble", content)>>]

\* clear staying in the session it was called in.
clear_keeps_session(self) ==
    [self |-> [self EXCEPT !.messages = <<>>,
                           !.user_counter = 0,
                           !.ai_counter = 0],
     ret |-> RetNone,
     trace |-> <<Ev("clear", Len(self.messages))>>]

\* clear starting the session count over.
clear_resets_session(self) ==
    [self |-> [self EXCEPT !.messages = <<>>,
                           !.session_counter = 1,
                           !.user_counter = 0,
                           !.ai_counter = 0],
     ret |-> RetNone,
     trace |-> <<Ev("clear", Len(self.messages))>>]

\* clear without the reset of ai_counter.
clear_keeps_ai_counter(self) ==
    [self |-> [self EXCEPT !.messages = <<>>,
                           !.session_counter = @ + 1,
                           !.user_counter = 0],
     ret |-> RetNone,
     trace |-> <<Ev("clear", Len(self.messages))>>]

clear(self) ==
    [self |-> [self EXCEPT !.messages = <<>>,
                           !.session_counter = @ + 1,
                           !.user_counter = 0,
                           !.ai_counter = 0],
     ret |-> RetNone,
     trace |-> <<Ev("clear", Len(self.messages))>>]

\* The body with a seed in its options whatever reproducible is.
payload_always_seed(self, bk) ==
    [model |-> bk.model,
     messages |-> self.messages,
     stream |-> bk.stream,
     options |-> [temperature |-> bk.temperature, has_seed |-> TRUE, seed |-> bk.seed]]

\* The JSON body of the chat request.
payload(self, bk) ==
    [model |-> bk.model,
     messages |-> self.messages,
     stream |-> bk.stream,
     options |-> [temperature |-> bk.temperature,
                  has_seed |-> Truthy(bk.reproducible),
                  seed |-> IF Truthy(bk.reproducible) THEN bk.seed ELSE PyNone]]

\* resp is the backend's answer to POST {url}api/chat: kind is "ok" or the
\* exception raised by requests.post, raise_for_status or json(); body is the
\* decoded JSON value: its type, whether 'message' in body, and body['message'].
launch(self, bk, resp) ==
    LET post == <<Ev("POST", [url |-> bk.url \o "api/chat", json |-> payload(self, bk)])>>
    IN IF resp.kind \in {"ConnectionError", "HTTPError", "JSONDecodeError"}
       THEN [self |-> self,
             ret |-> Ret(FALSE, "An error occurred while requesting the backend: " \o resp.kind),
             trace |-> post]
       ELSE IF resp.kind = "ValueError"
       THEN [self |-> self, ret |-> Raise("ValueError"), trace |-> post]
       ELSE IF resp.body.type \notin {"dict", "list", "str"}
       THEN [self |-> self, ret |-> Raise("TypeError"), trace |-> post]
       ELSE IF ~resp.body.has_message
       THEN [self |-> self,
             ret |-> Ret(FALSE, "The 'message' field was not found in the response."),
             trace |-> post]
       ELSE IF resp.body.type # "dict"
       THEN [self |-> self, ret |-> Raise("TypeError"), trace |-> post]
       ELSE LET added == Messages_add(self, resp.body.message)
            IN [self |-> [added EXCEPT !.ai_counter = @ + 1],
                ret |-> Ret(TRUE, "AI response has been received."),
                trace |-> post]

\* show taking the message before the newest one when there is one.
show_previous(self, bk, raw) ==
    IF self.messages = <<>> THEN [ret |-> RetNone, trace |-> <<>>]
    ELSE LET newest == self.messages[IF Len(self.messages) > 1 THEN Len(self.messages) - 1 ELSE 1]
             temperature_color == temperature2color(bk.temperature)
         IN IF newest.type # "dict" THEN [ret |-> Raise("TypeError"), trace |-> <<>>]
            ELSE IF "content" \notin newest.keys THEN [ret |-> Raise("KeyError"), trace |-> <<>>]
            ELSE IF raw
            THEN [ret |-> RetNone, trace |-> <<Ev("print", newest.content)>>]
            ELSE [ret |-> RetNone,
                  trace |-> <<Ev("display",
                                 [label |-> "Session:[" \o IntStr(self.session_counter) \o "."
                                            \o IntStr(self.ai_counter) \o "]",
                                  color |-> temperature_color,
                                  content |-> newest.content])>>]

\* Messages.show: what it prints or displays, or the exception of the lookup
\* self.messages[-1]['content'].
show(self, bk, raw) ==
    IF self.messages = <<>> THEN [ret |-> RetNone, trace |-> <<>>]
    ELSE LET newest == self.messages[Len(self.messages)]
             temperature_color == temperature2color(bk.temperature)
         IN IF newest.type # "dict" THEN [ret |-> Raise("TypeError"), trace |-> <<>>]
            ELSE IF "content" \notin newest.keys THEN [ret |-> Raise("KeyError"), trace |-> <<>>]
            ELSE IF raw
            THEN [ret |-> RetNone, trace |-> <<Ev("print", newest.content)>>]
            ELSE [ret |-> RetNone,
                  trace |-> <<Ev("display",
                                 [label |-> "Session:[" \o IntStr(self.session_counter) \o "."
                                            \o IntStr(self.ai_counter) \o "]",
                                  color |-> temperature_color,
                                  content |-> newest.content])>>]

-----------------------------------------------------------------------------
(* The inputs the operations are tried on.                                 *)

Contents == {"hello", "again"}

FileStats == {"file", "absent", "unreadable"}

ImagePaths ==
    {PyNone, PyStr(""), PyStr(" "), PyStr("cat.PNG"), PyStr("photo.gif")}

NoBody == [type |-> "none", has_message |-> FALSE, message |-> NonDict("null")]

Failed(kind) == [kind |-> kind, body |-> NoBody]
Answer(type, has_message, message) ==
    [kind |-> "ok", body |-> [type |-> type, has_message |-> has_message, message |-> message]]

ReplyAssistant == Dict({"role", "content"}, "assistant", "hi there", <<>>)
ReplyUserRole == Dict({"role", "content"}, "user", "echo", <<>>)
ReplyNoContent == Dict({"role"}, "assistant", "", <<>>)
ReplyText == NonDict("str")

\* Answers of the shape the chat API documents, and failures of the exchange.
ChatResponses ==
    {Failed("ConnectionError"), Failed("HTTPError"),
     Answer("dict", FALSE, NonDict("null")),
     Answer("dict", TRUE, ReplyAssistant),
     Answer("dict", TRUE, ReplyUserRole)}

\* Answers of any other shape.
OddChatResponses ==
    {Failed("JSONDecodeError"), Failed("ValueError"),
     Answer("null", FALSE, NonDict("null")),
     Answer("list", TRUE, NonDict("null")),
     Answer("str", FALSE, NonDict("null")),
     Answer("dict", TRUE, ReplyNoContent),
     Answer("dict", TRUE, ReplyText)}

\* No panel has been displayed.  ui holds the widgets of the panel displayed
\* last (the one the user acts on): the options of the Dropdown and the value
\* each widget shows, which is the backend's at creation and then the user's.
NoPanel ==
    [shown |-> FALSE, options |-> <<>>, model |-> "", seed |-> PyInt(0),
     reproducible |-> PyBool(FALSE), temperature |-> PyFloat(0)]

-----------------------------------------------------------------------------
(* The operations of Messages, called one at a time on the one instance.   *)

Init ==
    /\ messages = MessagesInit
    /\ backend = BackendDefault
    /\ logs = [logs |-> <<>>]
    /\ last = [op |-> "init", a |-> <<>>, ret |-> RetNone]
    /\ trace = <<>>
    /\ clears = 0
    /\ ui = NoPanel
    /\ twin = Counters(MessagesInit)

MessagesAssemble(Cs, Ps, Fs) ==
    /\ Len(messages.messages) < MaxHistory
    /\ \E content \in Cs, image_path \in Ps, fstat \in Fs :
          LET r == assemble(messages, content, image_path, fstat)
          IN /\ messages' = r.self
             /\ last' = [op |-> "assemble",
                         a |-> [content |-> content, image_path |-> image_path, fstat |-> fstat],
                         ret |-> r.ret]
             /\ trace' = r.trace
    /\ UNCHANGED <<twin, backend, logs, clears, ui>>

MessagesClear ==
    /\ messages.session_counter < MaxSession
    /\ LET r == clear(messages)
       IN /\ messages' = r.self
          /\ last' = [op |-> "clear", a |-> <<>>, ret |-> r.ret]
          /\ trace' = r.trace
          /\ clears' = clears + CountEv(r.trace, "clear")
    /\ UNCHANGED <<twin, backend, logs, ui>>

MessagesLaunch(Rs) ==
    /\ Len(messages.messages) < MaxHistory
    /\ \E resp \in Rs :
          LET r == launch(messages, backend, resp)
          IN /\ messages' = r.self
             /\ last' = [op |-> "launch", a |-> [resp |-> resp], ret |-> r.ret]
             /\ trace' = r.trace
    /\ UNCHANGED <<twin, backend, logs, clears, ui>>

MessagesShow ==
    /\ \E raw \in BOOLEAN :
          LET r == show(messages, backend, raw)
          IN /\ last' = [op |-> "show", a |-> [raw |-> raw], ret |-> r.ret]
             /\ trace' = r.trace
    /\ UNCHANGED <<twin, messages, backend, logs, clears, ui>>

Next ==
    \/ MessagesAssemble(Contents, ImagePaths, FileStats)
    \/ MessagesClear
    \/ MessagesLaunch(ChatResponses \cup OddChatResponses)
    \/ MessagesShow

Spec == Init /\ [][Next]_vars

-----------------------------------------------------------------------------
(* Claims about the conversation history.                                  *)

RECURSIVE CountRole(_, _)
CountRole(seq, role) ==
    IF seq = <<>> THEN 0
    ELSE (IF Head(seq).type = "dict" /\ "role" \in Head(seq).keys /\ Head(seq).role = role
          THEN 1 ELSE 0) + CountRole(Tail(seq), role)

\* C1: in every reachable state the user counter equals the number of messages
\* of role user in the history, and the assistant counter the number of
\* messages of role assistant.
C1_CountersMatchRoles ==
    /\ messages.user_counter = CountRole(messages.messages, "user")
    /\ messages.ai_counter = CountRole(messages.messages, "assistant")

C4_AssembleEffect ==
    [][last'.op = "assemble" =>
        LET a == last'.a
            enc == image2base64(a.image_path, a.fstat)
        IN IF a.image_path # PyNone /\ ~enc.ok
           THEN /\ last'.ret = Ret(FALSE, enc.result)
                /\ messages' = messages
           ELSE /\ Len(messages'.messages) = Len(messages.messages) + 1
                /\ SubSeq(messages'.messages, 1, Len(messages.messages)) = messages.messages
                /\ messages'.messages[Len(messages'.messages)].role = "user"
                /\ messages'.messages[Len(messages'.messages)].content = a.content
                /\ messages'.user_counter = messages.user_counter + 1
                /\ last'.ret.ok]_vars

\* C5: after clear the history is empty, the user and assistant counters are 0
\* and the session counter is one more than before.
C5_ClearEffect ==
    [][last'.op = "clear" =>
        /\ messages'.messages = <<>>
        /\ messages'.user_counter = 0
        /\ messages'.ai_counter = 0
        /\ messages'.session_counter = messages.session_counter + 1]_vars

\* A second clear has run.
C5_Witness ==
    /\ last.op = "clear"
    /\ clears = 2
    /\ messages.messages = <<>>

-----------------------------------------------------------------------------
(* The operations of Backend and Logs, called one at a time, and the        *)
(* specification in which every operation of the three classes may run.     *)

TagsFailed(kind) == [kind |-> kind, body |-> [type |-> "none", models |-> <<>>]]
TagsAnswer(models) == [kind |-> "ok", body |-> [type |-> "dict", models |-> models]]

BackendUpdateModel(Ms, Ts) ==
    /\ \E new_model \in Ms, resp \in Ts :
          LET r == update_model(backend, new_model, resp)
          IN /\ backend' = r.self
             /\ last' = [op |-> "update_model", a |-> [value |-> new_model, resp |-> resp], ret |-> r.ret]
             /\ trace' = r.trace
    /\ UNCHANGED <<twin, messages, logs, clears, ui>>

BackendUpdateSeed(Vs) ==
    /\ \E new_seed \in Vs :
          LET r == update_seed(backend, new_seed)
          IN /\ backend' = r.self
             /\ last' = [op |-> "update_seed", a |-> [value |-> new_seed], ret |-> r.ret]
             /\ trace' = r.trace
    /\ UNCHANGED <<twin, messages, logs, clears, ui>>

BackendUpdateReproducible(Vs) ==
    /\ \E new_reproducible \in Vs :
          LET r == update_reproducible(backend, new_reproducible)
          IN /\ backend' = r.self
             /\ last' = [op |-> "update_reproducible", a |-> [value |-> new_reproducible], ret |-> r.ret]
             /\ trace' = r.trace
    /\ UNCHANGED <<twin, messages, logs, clears, ui>>

BackendUpdateTemperature(Vs) ==
    /\ \E new_temperature \in Vs :
          LET r == update_temperature(backend, new_temperature)
          IN /\ backend' = r.self
             /\ last' = [op |-> "update_temperature", a |-> [value |-> new_temperature], ret |-> r.ret]
             /\ trace' = r.trace
    /\ UNCHANGED <<twin, messages, logs, clears, ui>>

BackendShow ==
    /\ last' = [op |-> "backend_show", a |-> <<>>, ret |-> RetNone]
    /\ trace' = backend_show(backend)
    /\ UNCHANGED <<twin, messages, backend, logs, clears, ui>>

LogsWrite(Ls, Ms) ==
    /\ Len(logs.logs) < MaxDirectLogs
    /\ \E level \in Ls, message \in Ms :
          LET r == CASE level = "I" -> info(logs, message)
                     [] level = "W" -> warning(logs, message)
                     [] OTHER -> error(logs, message)
          IN /\ logs' = r.self
             /\ last' = [op |-> "log", a |-> [level |-> level, message |-> message], ret |-> RetNone]
             /\ trace' = r.trace
    /\ UNCHANGED <<twin, messages, backend, clears, ui>>

LogsShow(Ns) ==
    /\ \E item_number \in Ns :
          /\ last' = [op |-> "logs_show", a |-> [item_number |-> item_number], ret |-> RetNone]
          /\ trace' = logs_show(logs, item_number)
    /\ UNCHANGED <<twin, messages, backend, logs, clears, ui>>

NextAll ==
    \/ MessagesAssemble({"hello"}, {PyNone, PyStr("photo.gif")}, {"file"})
    \/ MessagesClear
    \/ MessagesLaunch({Failed("ConnectionError"), Answer("dict", TRUE, ReplyAssistant)})
    \/ MessagesShow
    \/ BackendUpdateModel({"llama"}, {TagsAnswer(<<"llama">>)})
    \/ BackendUpdateSeed({PyInt(42)})
    \/ BackendUpdateReproducible({PyBool(TRUE)})
    \/ BackendUpdateTemperature({PyFloat(15)})
    \/ BackendShow
    \/ LogsWrite({"I", "W", "E"}, {"note"})
    \/ LogsShow({20})

SpecAll == Init /\ [][NextAll]_vars

\* C6: the session counter is 1 plus the number of clears performed so far, and
\* a step changes it by exactly the number of clears the step performs: an
\* operation that performs none (assemble, launch, show, a configuration
\* update, a logging call) leaves it as it was, and it never decreases.
C6_SessionCountsClears ==
    /\ [](messages.session_counter = 1 + clears)
    /\ [][/\ messages'.session_counter = messages.session_counter + CountEv(trace', "clear")
          /\ last'.op # "clear" => messages'.session_counter = messages.session_counter]_vars

\* Two clears have run, and an operation of another class ran after them.
C6_Witness ==
    /\ clears = 2
    /\ messages.session_counter = 3
    /\ last.op \in {"update_seed", "log", "launch"}

-----------------------------------------------------------------------------
(* _main.py: the cell magic %%ai.                                          *)

IsDigit(c) == \E i \in 1..10 : Digits[i] = c

IsDigits(str) == Len(str) > 0 /\ \A i \in 1..Len(str) : IsDigit(SubSeq(str, i, i))

\* argparse's pattern of a negative number: -\d+ or -\d*\.\d+
IsNegativeNumber(str) ==
    /\ startswith(str, "-")
    /\ LET rest == SubSeq(str, 2, Len(str))
       IN \/ IsDigits(rest)
          \/ \E i \in 1..Len(rest) :
                /\ SubSeq(rest, i, i) = "."
                /\ (i = 1 \/ IsDigits(SubSeq(rest, 1, i - 1)))
                /\ IsDigits(SubSeq(rest, i + 1, Len(rest)))

\* A token argparse takes for an option rather than for an option's value:
\* it starts with "-" and is no negative number (neither parser declares an
\* option that looks like one).  line is the option line after shlex.split.
IsOptionString(tok) == startswith(tok, "-") /\ ~IsNegativeNumber(tok)

\* The option's one value is missing when the line ends or an option follows.
LacksValue(line, i) == i + 1 > Len(line) \/ IsOptionString(line[i + 1])

ParseError(exc) == [ok |-> FALSE, exc |-> exc]

AiDefaults == [ok |-> TRUE, exc |-> "", image |-> PyNone, format |-> "markdown", clear |-> FALSE]

RECURSIVE parse_ai_from(_, _, _)
parse_ai_from(line, i, args) ==
    IF i > Len(line) THEN args
    ELSE IF line[i] \in {"--clear", "--clear-history"}
    THEN parse_ai_from(line, i + 1, [args EXCEPT !.clear = TRUE])
    ELSE IF line[i] = "--image"
    THEN IF LacksValue(line, i) THEN ParseError("ArgumentError")
         ELSE parse_ai_from(line, i + 2, [args EXCEPT !.image = PyStr(line[i + 1])])
    ELSE IF line[i] = "--format"
    THEN IF LacksValue(line, i) THEN ParseError("ArgumentError")
         ELSE IF line[i + 1] \notin {"markdown", "raw"} THEN ParseError("ArgumentError")
         ELSE parse_ai_from(line, i + 2, [args EXCEPT !.format = line[i + 1]])
    ELSE ParseError("SystemExit")

\* parser.parse_args(shlex.split(line)) of ai.
parse_ai(line) == parse_ai_from(line, 1, AiDefaults)

\* The exchange with one more try after a failure.
ai_exchange_retry(ms, bk, lg, tr, args, resp) ==
    LET sending == info(lg, "Sending session request to " \o bk.model \o ".")
        first == launch(ms, bk, resp)
        again == first.ret.k = "tuple" /\ ~first.ret.ok
        l == IF again THEN launch(ms, bk, resp) ELSE first
        tr1 == tr \o sending.trace \o (IF again THEN first.trace ELSE <<>>) \o l.trace
    IN IF l.ret.k = "raise"
       THEN [messages |-> l.self, logs |-> sending.self, ret |-> l.ret, trace |-> tr1]
       ELSE IF ~l.ret.ok
       THEN LET e == error(sending.self, l.ret.msg)
            IN [messages |-> l.self, logs |-> e.self, ret |-> RetNone, trace |-> tr1 \o e.trace]
       ELSE LET received == info(sending.self, l.ret.msg)
                sh == show(l.self, bk, args.format = "raw")
                tr2 == tr1 \o received.trace \o sh.trace
            IN IF sh.ret.k = "raise"
               THEN [messages |-> l.self, logs |-> received.self, ret |-> sh.ret, trace |-> tr2]
               ELSE LET done == info(received.self, "AI response display completed.")
                    IN [messages |-> l.self, logs |-> done.self, ret |-> RetNone,
                        trace |-> tr2 \o done.trace]

\* The exchange taking the user message back out of the history when it fails.
ai_exchange_rollback(ms, bk, lg, tr, args, resp) ==
    LET sending == info(lg, "Sending session request to " \o bk.model \o ".")
        l == launch(ms, bk, resp)
        tr1 == tr \o sending.trace \o l.trace
        undone == [l.self EXCEPT !.messages = SubSeq(@, 1, Len(@) - 1), !.user_counter = @ - 1]
    IN IF l.ret.k = "raise"
       THEN [messages |-> l.self, logs |-> sending.self, ret |-> l.ret, trace |-> tr1]
       ELSE IF ~l.ret.ok
       THEN LET e == error(sending.self, l.ret.msg)
            IN [messages |-> undone, logs |-> e.self, ret |-> RetNone, trace |-> tr1 \o e.trace]
       ELSE LET received == info(sending.self, l.ret.msg)
                sh == show(l.self, bk, args.format = "raw")
                tr2 == tr1 \o received.trace \o sh.trace
            IN IF sh.ret.k = "raise"
               THEN [messages |-> l.self, logs |-> received.self, ret |-> sh.ret, trace |-> tr2]
               ELSE LET done == info(received.self, "AI response display completed.")
                    IN [messages |-> l.self, logs |-> done.self, ret |-> RetNone,
                        trace |-> tr2 \o done.trace]

\* The rest of ai once the user message is assembled: ms and lg are the
\* history and the log at that point, tr the trace so far.
ai_exchange(ms, bk, lg, tr, args, resp) ==
    LET sending == info(lg, "Sending session request to " \o bk.model \o ".")
        l == launch(ms, bk, resp)
        tr1 == tr \o sending.trace \o l.trace
    IN IF l.ret.k = "raise"
       THEN [messages |-> l.self, logs |-> sending.self, ret |-> l.ret, trace |-> tr1]
       ELSE IF ~l.ret.ok
       THEN LET e == error(sending.self, l.ret.msg)
            IN [messages |-> l.self, logs |-> e.self, ret |-> RetNone, trace |-> tr1 \o e.trace]
       ELSE LET received == info(sending.self, l.ret.msg)
                sh == show(l.self, bk, args.format = "raw")
                tr2 == tr1 \o received.trace \o sh.trace
            IN IF sh.ret.k = "raise"
               THEN [messages |-> l.self, logs |-> received.self, ret |-> sh.ret, trace |-> tr2]
               ELSE LET done == info(received.self, "AI response display completed.")
                    IN [messages |-> l.self, logs |-> done.self, ret |-> RetNone,
                        trace |-> tr2 \o done.trace]

\* The clear step with the flag never acted on.
ai_clear_skipped(ms, lg, args) == [messages |-> ms, logs |-> lg, trace |-> <<>>]

\* The clear step writing its log entry before it clears.
ai_clear_logged_first(ms, lg, args) ==
    IF args.clear
    THEN LET c == clear(ms)
             cleared == info(lg, "Cleared session memory.")
         IN [messages |-> c.self, logs |-> cleared.self, trace |-> cleared.trace \o c.trace]
    ELSE [messages |-> ms, logs |-> lg, trace |-> <<>>]

\* if args.clear: messages.clear(); logs.info("Cleared session memory.")
ai_clear(ms, lg, args) ==
    IF args.clear
    THEN LET c == clear(ms)
             cleared == info(lg, "Cleared session memory.")
         IN [messages |-> c.self, logs |-> cleared.self, trace |-> c.trace \o cleared.trace]
    ELSE [messages |-> ms, logs |-> lg, trace |-> <<>>]

\* ai looking for --clear in the raw line before the line is parsed.
ai_clear_first(ms, bk, lg, line, cell, fstat, resp) ==
    LET args == parse_ai(line)
        wants == \E i \in 1..Len(line) : line[i] \in {"--clear", "--clear-history"}
        c0 == ai_clear(ms, lg, [clear |-> wants])
    IN IF ~args.ok
       THEN [messages |-> c0.messages, logs |-> c0.logs, ret |-> Raise(args.exc), trace |-> c0.trace]
       ELSE LET a == assemble(c0.messages, cell, args.image, fstat)
                tr1 == c0.trace \o a.trace
            IN IF ~a.ret.ok
               THEN LET e == error(c0.logs, a.ret.msg)
                    IN [messages |-> a.self, logs |-> e.self, ret |-> RetNone,
                        trace |-> tr1 \o e.trace]
               ELSE LET loaded == info(c0.logs, a.ret.msg)
                    IN ai_exchange(a.self, bk, loaded.self, tr1 \o loaded.trace, args, resp)

\* ai going on to the exchange after a failed assembly (the return is missing).
ai_no_return(ms, bk, lg, line, cell, fstat, resp) ==
    LET args == parse_ai(line)
    IN IF ~args.ok
       THEN [messages |-> ms, logs |-> lg, ret |-> Raise(args.exc), trace |-> <<>>]
       ELSE LET c0 == ai_clear(ms, lg, args)
                a == assemble(c0.messages, cell, args.image, fstat)
                tr1 == c0.trace \o a.trace
                noted == log_outcome(c0.logs, a.ret.ok, a.ret.msg)
            IN ai_exchange(a.self, bk, noted.self, tr1 \o noted.trace, args, resp)

\* The cell magic: line is the option line after shlex.split, cell the body;
\* fstat and resp are what the file system and the backend answer during the
\* call.
ai(ms, bk, lg, line, cell, fstat, resp) ==
    LET args == parse_ai(line)
    IN IF ~args.ok
       THEN [messages |-> ms, logs |-> lg, ret |-> Raise(args.exc), trace |-> <<>>]
       ELSE LET c0 == ai_clear(ms, lg, args)
                a == assemble(c0.messages, cell, args.image, fstat)
                tr1 == c0.trace \o a.trace
            IN IF ~a.ret.ok
               THEN LET e == error(c0.logs, a.ret.msg)
                    IN [messages |-> a.self, logs |-> e.self, ret |-> RetNone,
                        trace |-> tr1 \o e.trace]
               ELSE LET loaded == info(c0.logs, a.ret.msg)
                    IN ai_exchange(a.self, bk, loaded.self, tr1 \o loaded.trace, args, resp)


HasClear(line) == \E i \in 1..Len(line) : line[i] \in {"--clear", "--clear-history"}
NamesImage(line) == \E i \in 1..Len(line) : line[i] = "--image"

\* The backend is not asked.
NoResponse == Failed("none")

AiLines ==
    {<<>>, <<"--clear">>, <<"--format", "raw">>, <<"--clear-history", "--format", "raw">>,
     <<"--format", "html">>, <<"--clear", "--format", "html">>,
     <<"--image", "cat.PNG">>, <<"--clear", "--image", "photo.gif">>,
     <<"--image">>, <<"--image", "">>, <<"--clear", "please">>}

\* Whether this run of ai gets as far as its chat request.
AsksBackend(line, cell, fstat) ==
    CountEv(ai(messages, backend, logs, line, cell, fstat, NoResponse).trace, "POST") > 0

\* One run of %%ai.  The file status is drawn only when the line names an
\* image, and the response only when the request is sent.
AiCommand(Ls, Cs, Fs, Rs) ==
    /\ Len(logs.logs) < MaxLogs
    /\ \E line \in Ls, cell \in Cs :
          /\ HasClear(line) => messages.session_counter < MaxSession
          /\ ~HasClear(line) => Len(messages.messages) < MaxHistory
          /\ \E fstat \in (IF NamesImage(line) THEN Fs ELSE {"absent"}) :
             \E resp \in (IF AsksBackend(line, cell, fstat) THEN Rs ELSE {NoResponse}) :
                LET r == ai(messages, backend, logs, line, cell, fstat, resp)
                IN /\ messages' = r.messages
                   /\ logs' = r.logs
                   /\ trace' = r.trace
                   /\ clears' = clears + CountEv(r.trace, "clear")
                   /\ last' = [op |-> "ai",
                               a |-> [line |-> line, cell |-> cell, fstat |-> fstat, resp |-> resp],
                               ret |-> r.ret]
    /\ UNCHANGED <<twin, backend, ui>>

NextAi ==
    \/ AiCommand(AiLines, Contents, {"absent"},
                 {Failed("ConnectionError"), Answer("dict", FALSE, NonDict("null")),
                  Answer("dict", TRUE, ReplyAssistant), Answer("dict", TRUE, ReplyNoContent)})

SpecAi == Init /\ [][NextAi]_vars

-----------------------------------------------------------------------------
(* Claims about the cell magic.                                            *)

\* The log entries a step has appended.
NewEntries == SubSeq(logs'.logs, Len(logs.logs) + 1, Len(logs'.logs))

CountLevel(entries, level) == Cardinality({i \in 1..Len(entries) : entries[i].level = level})

Rendered(tr) == CountEv(tr, "print") + CountEv(tr, "display")

\* The request was answered by a JSON object holding `message`.
HoldsMessage(resp) == resp.kind = "ok" /\ resp.body.type = "dict" /\ resp.body.has_message

\* The exchange failed in transport or status, or the answer lacks `message`.
ExchangeFailed(resp) ==
    \/ resp.kind \in {"ConnectionError", "HTTPError", "JSONDecodeError"}
    \/ resp.kind = "ok" /\ resp.body.type = "dict" /\ ~resp.body.has_message

\* C2: one %%ai with --clear whose request is answered by a response holding
\* `message` leaves, whatever the length of the history before it, a history of
\* exactly two messages, the user message of this cell and then the reply, and
\* a session counter 1 higher than before.
C2_ClearThenExchange ==
    [][(last'.op = "ai" /\ HasClear(last'.a.line) /\ HoldsMessage(last'.a.resp)) =>
        /\ Len(messages'.messages) = 2
        /\ messages'.messages[1].role = "user"
        /\ messages'.messages[1].content = last'.a.cell
        /\ messages'.messages[2] = last'.a.resp.body.message
        /\ messages'.session_counter = messages.session_counter + 1]_vars

\* Such a command has run on a history of three messages.
C2_Witness ==
    /\ last.op = "ai" /\ HasClear(last.a.line) /\ HoldsMessage(last.a.resp)
    /\ trace # <<>> /\ trace[1].e = "clear" /\ trace[1].d = 3
    /\ Len(messages.messages) = 2
    /\ messages.session_counter >= 2

\* C7: when the assembly of %%ai fails, the command writes the failure as one
\* Error entry and returns: no request is sent, no message is appended, nothing
\* is rendered, and the Error entry is the last entry the command writes (after
\* the Info entry of a --clear, if the line asked for one).
C7_AssemblyFailureStops ==
    [][last'.op = "ai" =>
        LET a == last'.a
            args == parse_ai(a.line)
            before == IF args.clear THEN clear(messages).self ELSE messages
            asm == assemble(before, a.cell, args.image, a.fstat)
        IN (args.ok /\ ~asm.ret.ok) =>
              /\ CountEv(trace', "POST") = 0
              /\ Rendered(trace') = 0
              /\ messages' = before
              /\ NewEntries = (IF args.clear THEN <<Entry("I", "Cleared session memory.")>> ELSE <<>>)
                                 \o <<Entry("E", asm.ret.msg)>>
              /\ last'.ret = RetNone]_vars

\* A command with --clear and an image that does not encode has stopped at its
\* Error entry.
C7_Witness ==
    /\ last.op = "ai" /\ NamesImage(last.a.line) /\ HasClear(last.a.line)
    /\ ~assemble(messages, last.a.cell, parse_ai(last.a.line).image, last.a.fstat).ret.ok
    /\ logs.logs # <<>> /\ logs.logs[Len(logs.logs)].level = "E"
    /\ CountEv(trace, "POST") = 0
    /\ messages.messages = <<>>

-----------------------------------------------------------------------------
(* _main.py: the line magic %panel, and _source.py.                        *)

DigitValue(c) == CHOOSE n \in 0..9 : Digits[n + 1] = c

RECURSIVE ParseNat(_)
ParseNat(str) ==
    IF Len(str) = 0 THEN 0
    ELSE ParseNat(SubSeq(str, 1, Len(str) - 1)) * 10 + DigitValue(SubSeq(str, Len(str), Len(str)))

Converted(value) == [ok |-> TRUE, value |-> value]
ValueError == [ok |-> FALSE, value |-> PyNone]

\* int(tok) of argparse's type=int: an optional sign and decimal digits.
int_of(tok) ==
    LET negative == startswith(tok, "-")
        digits == IF negative THEN SubSeq(tok, 2, Len(tok)) ELSE tok
    IN IF IsDigits(digits)
       THEN Converted(PyInt(IF negative THEN 0 - ParseNat(digits) ELSE ParseNat(digits)))
       ELSE ValueError

\* float(tok) of type=float: "nan", or an optional sign, digits and at most one
\* point with a digit on one side of it at least.  The value is kept in
\* tenths: the first fractional digit counts.
float_of(tok) ==
    LET negative == startswith(tok, "-")
        number == IF negative THEN SubSeq(tok, 2, Len(tok)) ELSE tok
        points == {i \in 1..Len(number) : SubSeq(number, i, i) = "."}
        point == CHOOSE i \in points : TRUE
        whole == SubSeq(number, 1, point - 1)
        fraction == SubSeq(number, point + 1, Len(number))
        signed(tenths) == PyFloat(IF negative THEN 0 - tenths ELSE tenths)
    IN IF tok = "nan" THEN Converted(PyNaN)
       ELSE IF IsDigits(number) THEN Converted(signed(ParseNat(number) * 10))
       ELSE IF /\ Cardinality(points) = 1
               /\ (whole = "" \/ IsDigits(whole))
               /\ (fraction = "" \/ IsDigits(fraction))
               /\ Len(whole) + Len(fraction) > 0
       THEN Converted(signed(ParseNat(whole) * 10
                             + (IF fraction = "" THEN 0 ELSE DigitValue(SubSeq(fraction, 1, 1)))))
       ELSE ValueError

\* bool(tok) of type=bool: any text but the empty one is True.
bool_of(tok) == Converted(PyBool(tok # ""))

str_of(tok) == Converted(PyStr(tok))

PanelDefaults ==
    [ok |-> TRUE, exc |-> "", model |-> PyNone, seed |-> PyNone,
     temperature |-> PyNone, reproducible |-> PyNone]

\* The destination of an option string of panel's parser, "" for any other.
PanelDest(tok) ==
    CASE tok \in {"--model", "--set-model"} -> "model"
      [] tok \in {"--seed", "--set-seed"} -> "seed"
      [] tok \in {"--temperature", "--set-temperature"} -> "temperature"
      [] tok \in {"--reproducible", "--set-reproducible"} -> "reproducible"
      [] OTHER -> ""

PanelType(dest, tok) ==
    CASE dest = "model" -> str_of(tok)
      [] dest = "seed" -> int_of(tok)
      [] dest = "temperature" -> float_of(tok)
      [] OTHER -> bool_of(tok)

RECURSIVE parse_panel_from(_, _, _)
parse_panel_from(line, i, args) ==
    IF i > Len(line) THEN args
    ELSE IF PanelDest(line[i]) = "" THEN ParseError("SystemExit")
    ELSE IF LacksValue(line, i) THEN ParseError("ArgumentError")
    ELSE LET dest == PanelDest(line[i])
             got == PanelType(dest, line[i + 1])
         IN IF ~got.ok THEN ParseError("ArgumentError")
            ELSE parse_panel_from(line, i + 2, [args EXCEPT ![dest] = got.value])

\* parser.parse_args(shlex.split(line)) of panel.  Options are matched by
\* their full strings; the lines the commands are run on abbreviate none.
parse_panel(line) == parse_panel_from(line, 1, PanelDefaults)

\* The log entry of an update's outcome (none when the update raised).
Logged(lg, r) ==
    IF r.ret.k = "tuple" THEN log_outcome(lg, r.ret.ok, r.ret.msg)
    ELSE [self |-> lg, trace |-> <<>>]

\* success, message = backend.update_x(...); logs.info(message) if success
\* else logs.error(message): done is where update_backend stands, r what the
\* update returned.
Applied(done, r) ==
    [backend |-> r.self,
     logs |-> Logged(done.logs, r).self,
     ret |-> IF r.ret.k = "raise" THEN r.ret ELSE RetNone,
     trace |-> done.trace \o r.trace \o Logged(done.logs, r).trace]

update_backend_model(args, done, resp) ==
    IF Truthy(args.model) THEN Applied(done, update_model(done.backend, args.model.s, resp))
    ELSE done

update_backend_seed(args, done) ==
    IF done.ret.k = "raise" THEN done
    ELSE IF args.seed # PyNone THEN Applied(done, update_seed(done.backend, args.seed))
    ELSE done

update_backend_temperature(args, done) ==
    IF done.ret.k = "raise" THEN done
    ELSE IF args.temperature # PyNone
    THEN Applied(done, update_temperature(done.backend, args.temperature))
    ELSE done

update_backend_reproducible(args, done) ==
    IF done.ret.k = "raise" THEN done
    ELSE IF args.reproducible # PyNone
    THEN Applied(done, update_reproducible(done.backend, args.reproducible))
    ELSE done

\* _source.update_backend: the four updates in the order of the code, each
\* followed by its log entry; resp answers the model-list query of update_model.
update_backend(args, bk, lg, resp) ==
    update_backend_reproducible(args,
        update_backend_temperature(args,
            update_backend_seed(args,
                update_backend_model(args,
                    [backend |-> bk, logs |-> lg, ret |-> RetNone, trace |-> <<>>], resp))))

\* panel_model_setting: the query of the model list and the Dropdown, whose
\* constructor refuses a value that is not among its options.
panel_model_setting(bk, lg, resp) ==
    LET got == get_model_list(bk.url, resp)
        tr == <<Ev("GET", bk.url \o "api/tags")>>
        failed == error(lg, got.msg)
        lg1 == IF got.ok THEN lg ELSE failed.self
        tr1 == IF got.ok THEN tr ELSE tr \o failed.trace
        model_list == IF got.ok THEN got.names ELSE <<>>
    IN IF got.exc # "" THEN [logs |-> lg, ret |-> Raise(got.exc), trace |-> tr, options |-> <<>>]
       ELSE IF ~IsMember(bk.model, model_list)
       THEN [logs |-> lg1, ret |-> Raise("TraitError"), trace |-> tr1, options |-> <<>>]
       ELSE [logs |-> lg1, ret |-> RetNone, trace |-> tr1, options |-> model_list]

\* refresh_square(new_temperature)
refresh_square(new_temperature) ==
    <<Ev("display", [square |-> temperature2color(new_temperature)])>>

\* panel_settings: the four widgets, created with the values of the backend.
panel_settings(bk, lg, resp) ==
    LET d == panel_model_setting(bk, lg, resp)
    IN IF d.ret.k = "raise" THEN [logs |-> d.logs, ret |-> d.ret, trace |-> d.trace, ui |-> NoPanel]
       ELSE [logs |-> d.logs, ret |-> RetNone,
             trace |-> d.trace \o refresh_square(bk.temperature),
             ui |-> [shown |-> TRUE, options |-> d.options, model |-> bk.model, seed |-> bk.seed,
                     reproducible |-> bk.reproducible, temperature |-> bk.temperature]]

\* display(tabs): u is where the updates left the backend and the log, tab the
\* settings tab, shown the panel on display before the call.
panel_display(u, tab, shown) ==
    IF tab.ret.k = "raise"
    THEN [backend |-> u.backend, logs |-> tab.logs, ui |-> shown, ret |-> tab.ret,
          trace |-> u.trace \o backend_show(u.backend) \o tab.trace]
    ELSE [backend |-> u.backend, logs |-> tab.logs, ui |-> tab.ui, ret |-> RetNone,
          trace |-> u.trace \o backend_show(u.backend) \o tab.trace \o logs_show(tab.logs, 20)
                       \o <<Ev("display", <<"environment", "control", "logs">>)>>]

\* The three tabs, built in the order status, settings, logs.
panel_tabs(u, shown, resp2) ==
    IF u.ret.k = "raise"
    THEN [backend |-> u.backend, logs |-> u.logs, ui |-> shown, ret |-> u.ret, trace |-> u.trace]
    ELSE panel_display(u, panel_settings(u.backend, u.logs, resp2), shown)

\* if any(par is not None for par in [...]): update_backend(args, backend, logs)
panel_update(args, bk, lg, resp1) ==
    IF \/ args.model # PyNone \/ args.seed # PyNone
       \/ args.temperature # PyNone \/ args.reproducible # PyNone
    THEN update_backend(args, bk, lg, resp1)
    ELSE [backend |-> bk, logs |-> lg, ret |-> RetNone, trace |-> <<>>]

panel_parsed(args, bk, lg, shown, resp1, resp2) ==
    IF ~args.ok
    THEN [backend |-> bk, logs |-> lg, ui |-> shown, ret |-> Raise(args.exc), trace |-> <<>>]
    ELSE panel_tabs(panel_update(args, bk, lg, resp1), shown, resp2)

\* The line magic: line is the option line after shlex.split, shown the panel
\* on display before the call, resp1 the answer to the model-list query of
\* update_model and resp2 the answer to the query of the settings tab.
panel(bk, lg, shown, line, resp1, resp2) ==
    panel_parsed(parse_panel(line), bk, lg, shown, resp1, resp2)

\* The observers of the widgets: change['new'] is the value the user entered.
set_model(bk, lg, new_model, resp) ==
    LET r == update_model(bk, new_model, resp)
        l == Logged(lg, r)
    IN [backend |-> r.self, logs |-> l.self, ret |-> IF r.ret.k = "raise" THEN r.ret ELSE RetNone,
        trace |-> r.trace \o l.trace]

set_seed(bk, lg, new_seed) ==
    LET r == update_seed(bk, new_seed)
        l == Logged(lg, r)
    IN [backend |-> r.self, logs |-> l.self, ret |-> RetNone, trace |-> r.trace \o l.trace]

set_reproducible(bk, lg, new_reproducible) ==
    LET r == update_reproducible(bk, new_reproducible)
        l == Logged(lg, r)
    IN [backend |-> r.self, logs |-> l.self, ret |-> RetNone, trace |-> r.trace \o l.trace]

on_temperature_change(bk, lg, new_temperature) ==
    LET r == update_temperature(bk, new_temperature)
        l == Logged(lg, r)
    IN [backend |-> r.self, logs |-> l.self, ret |-> RetNone,
        trace |-> r.trace \o l.trace \o refresh_square(new_temperature)]

\* No model-list query is made.
NoTags == [kind |-> "none", body |-> [type |-> "none", models |-> <<>>]]

UpdatesModel(line) == parse_panel(line).ok /\ Truthy(parse_panel(line).model)

\* Whether this run of panel gets as far as the query of its settings tab.
BuildsSettings(line, resp1) ==
    CountEv(panel(backend, logs, ui, line, resp1, NoTags).trace, "GET")
        > (IF UpdatesModel(line) THEN 1 ELSE 0)

\* One run of %panel.  An answer is drawn only for a query that is made.
PanelCommand(Ls, Ts) ==
    /\ Len(logs.logs) < MaxPanelLogs
    /\ \E line \in Ls :
       \E resp1 \in (IF UpdatesModel(line) THEN Ts ELSE {NoTags}) :
       \E resp2 \in (IF BuildsSettings(line, resp1) THEN Ts ELSE {NoTags}) :
          LET r == panel(backend, logs, ui, line, resp1, resp2)
          IN /\ backend' = r.backend
             /\ logs' = r.logs
             /\ ui' = r.ui
             /\ trace' = r.trace
             /\ last' = [op |-> "panel",
                         a |-> [line |-> line, resp1 |-> resp1, resp2 |-> resp2],
                         ret |-> r.ret]
    /\ UNCHANGED <<twin, messages, clears>>

\* The user picks another option of the Dropdown on display.
WidgetModel(Ts) ==
    /\ ui.shown
    /\ Len(logs.logs) < MaxPanelLogs
    /\ \E i \in 1..Len(ui.options), resp \in Ts :
          /\ ui.options[i] # ui.model
          /\ LET r == set_model(backend, logs, ui.options[i], resp)
             IN /\ backend' = r.backend
                /\ logs' = r.logs
                /\ trace' = r.trace
                /\ ui' = [ui EXCEPT !.model = ui.options[i]]
                /\ last' = [op |-> "set_model", a |-> [value |-> ui.options[i], resp |-> resp],
                            ret |-> r.ret]
    /\ UNCHANGED <<twin, messages, clears>>

\* The user enters another number in the IntText on display.
WidgetSeed(Vs) ==
    /\ ui.shown
    /\ Len(logs.logs) < MaxPanelLogs
    /\ \E new_seed \in Vs :
          /\ new_seed # ui.seed
          /\ LET r == set_seed(backend, logs, new_seed)
             IN /\ backend' = r.backend
                /\ logs' = r.logs
                /\ trace' = r.trace
                /\ ui' = [ui EXCEPT !.seed = new_seed]
                /\ last' = [op |-> "set_seed", a |-> [value |-> new_seed], ret |-> r.ret]
    /\ UNCHANGED <<twin, messages, clears>>

\* The user ticks or unticks the Checkbox on display.
WidgetReproducible ==
    /\ ui.shown
    /\ Len(logs.logs) < MaxPanelLogs
    /\ LET new_reproducible == PyBool(~Truthy(ui.reproducible))
           r == set_reproducible(backend, logs, new_reproducible)
       IN /\ backend' = r.backend
          /\ logs' = r.logs
          /\ trace' = r.trace
          /\ ui' = [ui EXCEPT !.reproducible = new_reproducible]
          /\ last' = [op |-> "set_reproducible", a |-> [value |-> new_reproducible], ret |-> r.ret]
    /\ UNCHANGED <<twin, messages, clears>>

\* The user enters another number in the FloatText on display.
WidgetTemperature(Vs) ==
    /\ ui.shown
    /\ Len(logs.logs) < MaxPanelLogs
    /\ \E new_temperature \in Vs :
          /\ new_temperature # ui.temperature
          /\ LET r == on_temperature_change(backend, logs, new_temperature)
             IN /\ backend' = r.backend
                /\ logs' = r.logs
                /\ trace' = r.trace
                /\ ui' = [ui EXCEPT !.temperature = new_temperature]
                /\ last' = [op |-> "on_temperature_change", a |-> [value |-> new_temperature],
                            ret |-> r.ret]
    /\ UNCHANGED <<twin, messages, clears>>

\* The model lists the backend may answer with, and a failure of the query.
TagsResponses ==
    {TagsAnswer(<<"model:default", "llama">>), TagsFailed("ConnectionError")}

-----------------------------------------------------------------------------
(* The two magics in one notebook session.                                 *)

NextCmd ==
    \/ AiCommand({<<>>, <<"--clear">>, <<"--format", "html">>, <<"--clear", "--format", "html">>,
                  <<"--clear-history", "--format">>},
                 {"hello"}, {"absent"},
                 {Failed("ConnectionError"), Answer("dict", TRUE, ReplyAssistant)})
    \/ PanelCommand({<<>>, <<"--seed", "42">>, <<"--seed", "abc">>,
                     <<"--temperature", "1.5", "--seed", "4.2">>,
                     <<"--model", "llama", "--set-seed">>, <<"--reproducible", "False", "now">>},
                    TagsResponses)

SpecCmd == Init /\ [][NextCmd]_vars

\* An option line of %%ai whose --format has no value or a value that is no
\* choice, and one of %panel whose --seed has no value or a value that is no
\* integer.
BadFormat(line) ==
    \E i \in 1..Len(line) :
        line[i] = "--format" /\ (i = Len(line) \/ line[i + 1] \notin {"markdown", "raw"})

LooksInteger(tok) ==
    \/ IsDigits(tok)
    \/ startswith(tok, "-") /\ IsDigits(SubSeq(tok, 2, Len(tok)))

BadSeed(line) ==
    \E i \in 1..Len(line) :
        line[i] \in {"--seed", "--set-seed"} /\ (i = Len(line) \/ ~LooksInteger(line[i + 1]))

\* C9: a command whose option line is malformed (for %%ai an invalid --format
\* among others, for %panel a non-integer --seed among others) ends in the
\* parser's exception with the history, the counters, every field of the
\* backend, the log and the panel on display as they were and with nothing
\* done, also when the line holds --clear or valid options before the bad one.
C9_MalformedLineChangesNothing ==
    [][(\/ last'.op = "ai" /\ (BadFormat(last'.a.line) \/ ~parse_ai(last'.a.line).ok)
        \/ last'.op = "panel" /\ (BadSeed(last'.a.line) \/ ~parse_panel(last'.a.line).ok)) =>
        /\ last'.ret.k = "raise"
        /\ last'.ret.exc \in {"ArgumentError", "SystemExit"}
        /\ messages' = messages
        /\ backend' = backend
        /\ logs' = logs
        /\ ui' = ui
        /\ clears' = clears
        /\ trace' = <<>>]_vars

\* A %%ai with --clear and an invalid --format has run on a history that holds
\* an exchange, after a %panel that changed the seed.
C9_Witness ==
    /\ last.op = "ai" /\ HasClear(last.a.line) /\ BadFormat(last.a.line)
    /\ last.ret.k = "raise"
    /\ Len(messages.messages) >= 2
    /\ backend.seed = PyInt(42)
    /\ logs.logs # <<>>

-----------------------------------------------------------------------------
(* The temperature under the update operations, the line magic and the     *)
(* widgets of the settings tab.                                            *)

TemperatureCandidates == {PyFloat(15), PyFloat(-3), PyFloat(7), PyNaN, PyInt(1)}

NextPanel ==
    \/ BackendUpdateModel({"llama"}, {TagsAnswer(<<"model:default", "llama">>)})
    \/ BackendUpdateSeed({PyInt(42)})
    \/ BackendUpdateReproducible({PyBool(TRUE)})
    \/ BackendUpdateTemperature(TemperatureCandidates)
    \/ PanelCommand({<<>>, <<"--temperature", "1.5">>, <<"--set-temperature", "-0.3">>,
                     <<"--temperature", "nan">>, <<"--temperature", "hot">>},
                    {TagsAnswer(<<"model:default", "llama">>)})
    \/ WidgetModel({TagsAnswer(<<"model:default", "llama">>)})
    \/ WidgetSeed({PyInt(42)})
    \/ WidgetReproducible
    \/ WidgetTemperature({PyFloat(15), PyFloat(-3)})

SpecPanel == Init /\ [][NextPanel]_vars

\* max(0.0, min(candidate, 1.0)) read as numbers, in tenths; Python evaluates
\* it to 0.0 for a candidate that is not a number.
Clamped(candidate) ==
    IF candidate.t = "nan" THEN PyFloat(0)
    ELSE IF candidate.v > 10 THEN PyFloat(10)
    ELSE IF candidate.v < 0 THEN PyFloat(0)
    ELSE candidate

\* The temperature a %panel line asks for, None when it asks for none or the
\* command ends before update_temperature.
AskedTemperature(a) ==
    LET args == parse_panel(a.line)
    IN IF ~args.ok THEN PyNone
       ELSE IF Truthy(args.model) /\ get_model_list(backend.url, a.resp1).exc # "" THEN PyNone
       ELSE args.temperature

\* C10: the temperature is a float in [0.0, 1.0] in every reachable state, and
\* update_temperature on a float, called directly, by a %panel line or by the
\* FloatText of the settings tab, succeeds and stores the candidate clamped
\* into [0.0, 1.0]: 1.5 stores 1.0 and -0.3 stores 0.0.
C10_TemperatureInRange ==
    /\ [](/\ backend.temperature.t = "float"
          /\ backend.temperature.v >= 0
          /\ backend.temperature.v <= 10)
    /\ [][/\ (last'.op = "update_temperature" /\ IsInstanceFloat(last'.a.value)) =>
                /\ last'.ret.k = "tuple" /\ last'.ret.ok
                /\ backend'.temperature = Clamped(last'.a.value)
          /\ last'.op = "on_temperature_change" =>
                /\ backend'.temperature = Clamped(last'.a.value)
                /\ NewEntries # <<>> /\ NewEntries[1].level = "I"
          /\ (last'.op = "panel" /\ AskedTemperature(last'.a) # PyNone) =>
                /\ backend'.temperature = Clamped(AskedTemperature(last'.a))
                /\ \E i \in 1..Len(NewEntries) :
                      NewEntries[i] = Entry("I", "Temperature is now set to "
                                                 \o Format(backend'.temperature) \o ".")]_vars

\* The FloatText on display holds 1.5 and the backend 1.0, after a line command
\* had set the temperature.
C10_Witness ==
    /\ last.op = "on_temperature_change" /\ last.a.value = PyFloat(15)
    /\ ui.shown /\ ui.temperature = PyFloat(15)
    /\ backend.temperature = PyFloat(10)
    /\ \E i \in 1..Len(logs.logs) : logs.logs[i].message = "Temperature is now set to 0.0."

-----------------------------------------------------------------------------
(* The operations of Backend on candidates of every type, with every       *)
(* answer to the model-list query.                                         *)

\* A JSON body of the model-list answer that is no object.
TagsOdd == [kind |-> "ok", body |-> [type |-> "list", models |-> <<>>]]

ModelCandidates == {"llama", "ghost", "model:default"}

BackendTags ==
    {TagsAnswer(<<"model:default", "llama">>), TagsAnswer(<<"llama">>), TagsAnswer(<<>>),
     TagsFailed("ConnectionError"), TagsFailed("HTTPError"), TagsFailed("ValueError"), TagsOdd}

SeedCandidates == {PyInt(42), PyInt(-5), PyFloat(35), PyBool(TRUE), PyStr("7"), PyNone}

ReproducibleCandidates == {PyBool(TRUE), PyBool(FALSE), PyInt(1), PyStr("True"), PyNone}

NextBackend ==
    \/ BackendUpdateModel(ModelCandidates, BackendTags)
    \/ BackendUpdateSeed(SeedCandidates)
    \/ BackendUpdateReproducible(ReproducibleCandidates)
    \/ BackendUpdateTemperature(TemperatureCandidates \cup {PyStr("0.5"), PyNone})
    \/ BackendShow

SpecBackend == Init /\ [][NextBackend]_vars

UpdateOps == {"update_model", "update_seed", "update_reproducible", "update_temperature"}

\* The model-list query got a list of names.
QueryAnswered(resp) == resp.kind = "ok" /\ resp.body.type = "dict"

\* The query failed in a way get_model_list reports.
QueryFailed(resp) == resp.kind \in {"ConnectionError", "Timeout", "HTTPError", "JSONDecodeError", "ValueError"}

\* C11: an update that returns failure leaves the six fields of the backend
\* as they were; and an update does return failure for a candidate of the
\* wrong type (a float or text seed, a reproducible that is no bool, a
\* temperature that is no float), for a model that the answered list does not
\* hold and for a model-list query that failed.
C11_FailedUpdateChangesNothing ==
    [][last'.op \in UpdateOps =>
        /\ (last'.ret.k = "tuple" /\ ~last'.ret.ok) => backend' = backend
        /\ (last'.op = "update_seed" /\ last'.a.value.t \in {"float", "nan", "str", "NoneType"})
              => (last'.ret.k = "tuple" /\ ~last'.ret.ok)
        /\ (last'.op = "update_reproducible" /\ last'.a.value.t # "bool")
              => (last'.ret.k = "tuple" /\ ~last'.ret.ok)
        /\ (last'.op = "update_temperature" /\ last'.a.value.t \notin {"float", "nan"})
              => (last'.ret.k = "tuple" /\ ~last'.ret.ok)
        /\ (last'.op = "update_model"
              /\ (\/ QueryFailed(last'.a.resp)
                  \/ QueryAnswered(last'.a.resp)
                        /\ ~IsMember(last'.a.value, last'.a.resp.body.models)))
              => (last'.ret.k = "tuple" /\ ~last'.ret.ok)]_vars

\* A float seed was refused after every field had moved off its default.
C11_Witness ==
    /\ last.op = "update_seed" /\ last.a.value = PyFloat(35)
    /\ last.ret.k = "tuple" /\ ~last.ret.ok
    /\ backend.seed = PyInt(42)
    /\ backend.model = "llama"
    /\ backend.reproducible = PyBool(TRUE)
    /\ backend.temperature = PyFloat(7)

\* C12: update_seed stores the candidate and succeeds when the candidate is an
\* integer; for any other candidate (a float, a boolean, text, None) it
\* returns the type-mismatch failure and leaves the seed as it was.
C12_SeedNeedsInteger ==
    [][last'.op = "update_seed" =>
        LET candidate == last'.a.value
        IN IF candidate.t = "int"
           THEN /\ last'.ret = Ret(TRUE, "Seed is now set to " \o IntStr(candidate.v) \o ".")
                /\ backend' = [backend EXCEPT !.seed = candidate]
           ELSE /\ last'.ret.k = "tuple" /\ ~last'.ret.ok
                /\ backend' = backend]_vars

\* All the names the answered lists hold.
ListedNames ==
    UNION {{resp.body.models[i] : i \in 1..Len(resp.body.models)} :
              resp \in {t \in BackendTags : QueryAnswered(t)}}

\* C13: update_model stores the candidate exactly when the query was answered
\* with a list that holds it, and then reports the change; when the query
\* failed it returns the query's failure message as it is, and when the list
\* lacks the candidate it returns the invalid-model failure; the query goes to
\* the backend's url.  So the model is the default or a listed name in every
\* state.
C13_ModelFromList ==
    /\ [](backend.model = BackendDefault.model \/ backend.model \in ListedNames)
    /\ [][last'.op = "update_model" =>
            LET candidate == last'.a.value
                resp == last'.a.resp
            IN /\ trace' = <<Ev("GET", backend.url \o "api/tags")>>
               /\ IF QueryAnswered(resp) /\ IsMember(candidate, resp.body.models)
                  THEN /\ backend' = [backend EXCEPT !.model = candidate]
                       /\ last'.ret = Ret(TRUE, "Changed backend model to " \o candidate \o ".")
                  ELSE /\ backend' = backend
                       /\ QueryFailed(resp) =>
                             last'.ret = Ret(FALSE, get_model_list(backend.url, resp).msg)
                       /\ QueryAnswered(resp) =>
                             last'.ret = Ret(FALSE, "Model " \o candidate \o " is invalid, update failed.")]_vars

\* The model was changed to a listed name, and a later update to a name the
\* list lacks was refused.
C13_Witness ==
    /\ last.op = "update_model" /\ last.a.value = "ghost"
    /\ QueryAnswered(last.a.resp)
    /\ last.ret.k = "tuple" /\ ~last.ret.ok
    /\ backend.model = "llama"

-----------------------------------------------------------------------------
(* The chat request.                                                       *)

\* C14: the one request of a launch goes to {url}api/chat and its body holds
\* the backend's model, stream and temperature as they are at the launch and
\* the whole history in its order (so it ends with the user message when an
\* assemble has just appended one); its options hold a seed exactly when
\* reproducible is true, and the seed is then the backend's.
C14_PayloadFromState ==
    [][last'.op = "launch" =>
        /\ CountEv(trace', "POST") = 1
        /\ trace'[1].e = "POST"
        /\ LET sent == trace'[1].d.json
               n == Len(sent.messages)
           IN /\ trace'[1].d.url = backend.url \o "api/chat"
              /\ sent.model = backend.model
              /\ sent.stream = backend.stream
              /\ sent.options.temperature = backend.temperature
              /\ sent.messages = messages.messages
              /\ sent.options.has_seed <=> (backend.reproducible = PyBool(TRUE))
              /\ sent.options.has_seed => sent.options.seed = backend.seed
              /\ (last.op = "assemble" /\ last.ret.ok) =>
                    /\ n >= 1
                    /\ sent.messages[n].role = "user"
                    /\ sent.messages[n].content = last.a.content]_vars

\* A launch right after an assemble sent a seed, with every field of the
\* backend off its default and a history of two messages or more.
C14_Witness ==
    /\ last.op = "launch"
    /\ trace # <<>> /\ trace[1].e = "POST"
    /\ trace[1].d.json.options.has_seed
    /\ trace[1].d.json.options.seed = PyInt(42)
    /\ trace[1].d.json.model = "llama"
    /\ trace[1].d.json.options.temperature = PyFloat(10)
    /\ Len(trace[1].d.json.messages) >= 2
    /\ trace[1].d.json.messages[Len(trace[1].d.json.messages)].role = "user"

-----------------------------------------------------------------------------
(* The log on its own: entries are written, then some of them are shown.   *)

\* One call of info, warning or error on a log that may already be long.
LogsRecord(Ls, Ms) ==
    /\ Len(logs.logs) < MaxShownLogs
    /\ \E level \in Ls, message \in Ms :
          LET r == CASE level = "I" -> info(logs, message)
                     [] level = "W" -> warning(logs, message)
                     [] OTHER -> error(logs, message)
          IN /\ logs' = r.self
             /\ last' = [op |-> "log", a |-> [level |-> level, message |-> message], ret |-> RetNone]
             /\ trace' = r.trace
    /\ UNCHANGED <<twin, messages, backend, clears, ui>>

ShowLimits == {0, 1, 3, 20}

NextLogs ==
    \/ LogsRecord({"I", "W", "E"}, {"note"})
    \/ LogsShow(ShowLimits)

SpecLogs == Init /\ [][NextLogs]_vars

\* The entries among the lines that a call of show printed, in print order.
ShownEntries(tr) ==
    LET lines == SelectSeq(tr, LAMBDA ev : ev.e = "print" /\ ev.d.kind = "entry")
    IN [i \in 1..Len(lines) |-> lines[i].d.entry]

Smaller(a, b) == IF a < b THEN a ELSE b

\* C15: Logs.show(limit) on a log of total >= 1 entries displays exactly
\* min(limit, total) entries, the most recent ones in chronological order, for
\* every limit >= 0; on an empty log it displays only the placeholder line.
C15_ShowsMostRecent ==
    [][last'.op = "logs_show" =>
          LET total == Len(logs.logs)
              shown == Smaller(last'.a.item_number, total)
          IN IF total = 0
             THEN /\ Len(trace') = 1
                  /\ trace'[1].e = "print"
                  /\ trace'[1].d.kind = "placeholder"
             ELSE /\ CountEv(trace', "print") = Len(trace')
                  /\ \A i \in 1..Len(trace') : trace'[i].d.kind # "placeholder"
                  /\ Len(ShownEntries(trace')) = shown
                  /\ ShownEntries(trace') = SubSeq(logs.logs, total - shown + 1, total)]_vars

-----------------------------------------------------------------------------
(* The log over a whole session: both magics, the update operations, the   *)
(* widgets of the settings tab and calls of show.                          *)

NextSession ==
    \/ AiCommand({<<>>, <<"--clear">>}, {"hello"}, {"absent"},
                 {Failed("ConnectionError"), Answer("dict", TRUE, ReplyAssistant)})
    \/ PanelCommand({<<>>, <<"--seed", "42">>, <<"--model", "ghost">>},
                    {TagsAnswer(<<"model:default", "llama">>)})
    \/ BackendUpdateSeed({PyInt(42), PyStr("42")})
    \/ WidgetModel({TagsAnswer(<<"model:default", "llama">>)})
    \/ WidgetSeed({PyInt(7)})
    \/ WidgetReproducible
    \/ WidgetTemperature({PyFloat(15)})
    \/ LogsShow({1, 20})

SpecSession == Init /\ [][NextSession]_vars

\* C16: the log is append-only and never pruned: over every step of a command,
\* an update operation, a panel callback or show, the log before the step is a
\* prefix of the log after it, and show leaves the log as it was.
C16_LogAppendOnly ==
    [][/\ Len(logs.logs) <= Len(logs'.logs)
       /\ SubSeq(logs'.logs, 1, Len(logs.logs)) = logs.logs
       /\ (last'.op = "logs_show" => logs'.logs = logs.logs)]_vars

C16_Witness ==
    /\ last.op = "logs_show"
    /\ Len(logs.logs) >= 3
    /\ \E i, j \in 1..Len(logs.logs) : logs.logs[i].level = "I" /\ logs.logs[j].level = "E"
    /\ ui.shown
    /\ messages.messages # <<>>

-----------------------------------------------------------------------------
(* Claims about the line magic.                                            *)

\* C17: every run of %panel with a well-formed option line ends by displaying
\* a panel of exactly three tabs titled "environment", "control", "logs", with
\* or without setting options, whether the updates succeed or fail, and also
\* when the model-list query of the model control fails or does not list the
\* current model.
C17_PanelShowsThreeTabs ==
    [][(last'.op = "panel" /\ parse_panel(last'.a.line).ok) =>
          /\ last'.ret.k = "none"
          /\ trace' # <<>>
          /\ trace'[Len(trace')].e = "display"
          /\ trace'[Len(trace')].d = <<"environment", "control", "logs">>]_vars

-----------------------------------------------------------------------------
(* The line magic with each of its setting options.                        *)

PanelLines ==
    {<<>>, <<"--model", "llama">>, <<"--model", "ghost">>, <<"--model", "">>,
     <<"--seed", "42">>, <<"--temperature", "0.7">>,
     <<"--reproducible", "True">>, <<"--reproducible", "False">>,
     <<"--set-reproducible", "True">>, <<"--set-reproducible", "False">>,
     <<"--reproducible", "">>,
     <<"--set-model", "llama", "--set-seed", "7", "--set-temperature", "1.5", "--reproducible", "True">>}

NextLine ==
    \/ PanelCommand(PanelLines, TagsResponses)

SpecLine == Init /\ [][NextLine]_vars

\* What update_backend left in the trace: the events before the first display,
\* which is that of the status tab.
BeforeDisplay(tr) ==
    LET first == CHOOSE i \in 1..(Len(tr) + 1) :
                     /\ i = Len(tr) + 1 \/ tr[i].e = "display"
                     /\ \A j \in 1..(i - 1) : tr[j].e # "display"
    IN SubSeq(tr, 1, first - 1)

UpdateEntries(tr) ==
    LET logged == SelectSeq(BeforeDisplay(tr), LAMBDA ev : ev.e = "log")
    IN [i \in 1..Len(logged) |-> logged[i].d]

\* The entry the claim expects for the outcome r of an update operation.
OutcomeEntry(r) == <<Entry(IF r.ret.ok THEN "I" ELSE "E", r.ret.msg)>>

\* C18: for each of model, seed, temperature, reproducible that is present
\* (not None) in the parsed arguments, the matching update operation is called
\* exactly once and exactly one log entry is appended, Info when the update
\* succeeded and Error when it failed; for each absent field no update is
\* attempted, the field is unchanged and no entry is appended.
C18_OneEntryPerPresentField ==
    [][(last'.op = "panel" /\ parse_panel(last'.a.line).ok) =>
          LET args == parse_panel(last'.a.line)
              resp == last'.a.resp1
              none == <<>>
          IN /\ UpdateEntries(trace') =
                    (IF args.model # PyNone
                     THEN OutcomeEntry(update_model(backend, args.model.s, resp)) ELSE none)
                    \o (IF args.seed # PyNone
                        THEN OutcomeEntry(update_seed(backend, args.seed)) ELSE none)
                    \o (IF args.temperature # PyNone
                        THEN OutcomeEntry(update_temperature(backend, args.temperature)) ELSE none)
                    \o (IF args.reproducible # PyNone
                        THEN OutcomeEntry(update_reproducible(backend, args.reproducible)) ELSE none)
             /\ CountEv(BeforeDisplay(trace'), "GET") = (IF args.model # PyNone THEN 1 ELSE 0)
             /\ args.model = PyNone => backend'.model = backend.model
             /\ args.seed = PyNone => backend'.seed = backend.seed
             /\ args.temperature = PyNone => backend'.temperature = backend.temperature
             /\ args.reproducible = PyNone => backend'.reproducible = backend.reproducible]_vars

\* The boolean a literal of the option line stands for.
BoolLiteral(tok) == PyBool(tok = "True")

\* C19: %panel with --reproducible V (or --set-reproducible V), V a boolean
\* literal, sets the reproducible flag to V: True leaves reproducibility
\* enabled and False leaves it disabled.
C19_ReproducibleLiteral ==
    [][(last'.op = "panel" /\ parse_panel(last'.a.line).ok) =>
          \A i \in 1..(Len(last'.a.line) - 1) :
              (/\ last'.a.line[i] \in {"--reproducible", "--set-reproducible"}
               /\ last'.a.line[i + 1] \in {"True", "False"}
               /\ \A j \in (i + 2)..Len(last'.a.line) : PanelDest(last'.a.line[j]) # "reproducible")
              => backend'.reproducible = BoolLiteral(last'.a.line[i + 1])]_vars

-----------------------------------------------------------------------------
(* Failures of the chat exchange under the cell magic.                     *)

\* C20: no failure escapes %%ai as an uncaught exception: whatever the outcome
\* of the chat exchange (transport failure, error status, body that is no
\* JSON, JSON body without message, JSON body with a message of any shape),
\* the command ends normally, having either rendered the reply or appended
\* exactly one Error log entry for the failure.
C20_NoFailureEscapes ==
    [][(last'.op = "ai" /\ CountEv(trace', "POST") = 1) =>
          /\ last'.ret.k = "none"
          /\ \/ Rendered(trace') >= 1 /\ CountLevel(NewEntries, "E") = 0
             \/ Rendered(trace') = 0 /\ CountLevel(NewEntries, "E") = 1]_vars

-----------------------------------------------------------------------------
(* The image encoder, called on its own and through assemble.              *)

EncoderPaths ==
    ImagePaths \cup {PyStr("a.jpeg"), PyStr("b.jpg"), PyStr("notes"), PyStr("png"), PyInt(3)}

\* One call of image2base64; the trace holds the file-system calls it made.
GeneralImage2Base64(Ps, Fs) ==
    /\ \E image_path \in Ps, fstat \in Fs :
          LET r == image2base64(image_path, fstat)
          IN /\ last' = [op |-> "image2base64",
                         a |-> [image_path |-> image_path, fstat |-> fstat],
                         ret |-> Ret(r.ok, r.result)]
             /\ trace' = [i \in 1..Len(r.fs) |-> Ev("fs", r.fs[i])]
    /\ UNCHANGED <<twin, messages, backend, logs, clears, ui>>

NextImage ==
    \/ GeneralImage2Base64(EncoderPaths, FileStats)
    \/ MessagesAssemble({"hello"}, {PyNone, PyStr("cat.PNG"), PyStr("photo.gif")}, FileStats)
    \/ MessagesClear

SpecImage == Init /\ [][NextImage]_vars

\* The paths tried that are no text or only white space, and those whose
\* extension is .jpg, .jpeg or .png in any case.
InvalidPaths == {PyNone, PyInt(3), PyStr(""), PyStr(" ")}

SupportedPaths == {PyStr("cat.PNG"), PyStr("a.jpeg"), PyStr("b.jpg")}

\* C21: image2base64 checks in a fixed order and stops at the first check that
\* fails: a non-empty text path, then the extension (.jpg, .jpeg, .png in any
\* case), then the existence of the file, then the read.  A path with an
\* unsupported extension fails on the format without any file-system call,
\* whether or not the file exists, and no failure returns a payload.
C21_ChecksInOrder ==
    [][last'.op = "image2base64" =>
          LET path == last'.a.image_path
              fstat == last'.a.fstat
              ret == last'.ret
          IN /\ path \in InvalidPaths =>
                   /\ ret = Ret(FALSE, "The specified image path is invalid.")
                   /\ trace' = <<>>
             /\ path \notin InvalidPaths \cup SupportedPaths =>
                   /\ ret = Ret(FALSE, "The file '" \o path.s \o "' is not a valid image format. "
                                       \o "Supported formats are: .jpg, .jpeg, .png.")
                   /\ trace' = <<>>
             /\ (path \in SupportedPaths /\ fstat = "absent") =>
                   /\ ret = Ret(FALSE, "Image file '" \o path.s \o "' not found.")
                   /\ trace' = <<Ev("fs", "isfile")>>
             /\ (path \in SupportedPaths /\ fstat = "unreadable") =>
                   /\ ~ret.ok
                   /\ trace' = <<Ev("fs", "isfile"), Ev("fs", "open")>>
             /\ (path \in SupportedPaths /\ fstat = "file") =>
                   /\ ret = Ret(TRUE, b64encode(path.s))
                   /\ trace' = <<Ev("fs", "isfile"), Ev("fs", "open")>>
             /\ ~ret.ok => (path.t # "str" \/ ret.msg # b64encode(path.s))]_vars

C21_Witness ==
    /\ last.op = "image2base64"
    /\ last.a.image_path = PyStr("photo.gif")
    /\ last.a.fstat = "file"
    /\ ~last.ret.ok
    /\ trace = <<>>

-----------------------------------------------------------------------------
(* The frame of the configuration updates.                                 *)

\* C22: the configuration updates are independent of one another: an update
\* changes at most its own field and leaves the other five fields as they
\* were, url and stream are changed by no operation at all, and no update
\* changes the history or its counters.
C22_UpdatesIndependent ==
    [][/\ backend'.url = backend.url
       /\ backend'.stream = backend.stream
       /\ last'.op \in UpdateOps =>
             /\ last'.op # "update_model" => backend'.model = backend.model
             /\ last'.op # "update_seed" => backend'.seed = backend.seed
             /\ last'.op # "update_reproducible" => backend'.reproducible = backend.reproducible
             /\ last'.op # "update_temperature" => backend'.temperature = backend.temperature
             /\ messages' = messages]_vars

C22_Witness ==
    /\ last.op = "update_seed"
    /\ last.ret.k = "tuple" /\ last.ret.ok
    /\ backend.seed = PyInt(42)
    /\ backend.model = "llama"
    /\ backend.reproducible = PyBool(FALSE)
    /\ backend.temperature = PyFloat(10)
    /\ Len(messages.messages) >= 2

-----------------------------------------------------------------------------
(* The history between two clears.                                         *)

\* C23: messages are immutable once appended: over every assemble, launch or
\* show the history before the operation is a prefix of the history after
\* it, every earlier message keeping its role, content and image.
C23_HistoryOnlyGrows ==
    [][last'.op \in {"assemble", "launch", "show"} =>
          /\ Len(messages.messages) <= Len(messages'.messages)
          /\ \A i \in 1..Len(messages.messages) :
                messages'.messages[i] = messages.messages[i]]_vars

C23_Witness ==
    /\ last.op = "launch"
    /\ last.ret.k = "tuple" /\ last.ret.ok
    /\ Len(messages.messages) = 3
    /\ messages.messages[1].role = "user"
    /\ messages.messages[1].images # <<>>
    /\ messages.messages[2].role = "assistant"

-----------------------------------------------------------------------------
(* The order of the steps of the cell magic.                               *)

\* The kinds of the events of a trace, in order.
Kinds(tr) == [i \in 1..Len(tr) |-> tr[i].e]

InfoEntries(texts) == [i \in 1..Len(texts) |-> Entry("I", texts[i])]

\* A run of %%ai that sent its request, logged no error and returned.
SucceededEndToEnd ==
    /\ last'.op = "ai"
    /\ last'.ret.k = "none"
    /\ CountEv(trace', "POST") = 1
    /\ CountLevel(NewEntries, "E") = 0

\* C24: a %%ai run that succeeds end to end appends exactly these Info
\* entries, in this order and with nothing in between: (only with --clear)
\* "Cleared session memory.", the assemble success message, the message naming
\* the target model, the launch success message, the completion message; the
\* clear comes before the assemble, the assemble before the chat request, and
\* the render after the reply is appended and before the completion message.
C24_SuccessfulRunOrder ==
    [][SucceededEndToEnd =>
          LET cleared == HasClear(last'.a.line)
              raw == parse_ai(last'.a.line).format = "raw"
              n == Len(trace')
          IN /\ NewEntries =
                    InfoEntries((IF cleared THEN <<"Cleared session memory.">> ELSE <<>>)
                                \o <<"User content has been loaded.",
                                     "Sending session request to " \o backend.model \o ".",
                                     "AI response has been received.",
                                     "AI response display completed.">>)
             /\ Kinds(trace') =
                    (IF cleared THEN <<"clear", "log">> ELSE <<>>)
                    \o <<"assemble", "log", "log", "POST", "log",
                         IF raw THEN "print" ELSE "display", "log">>
             /\ (IF raw THEN trace'[n - 1].d ELSE trace'[n - 1].d.content)
                    = last'.a.resp.body.message.content
             /\ messages'.messages[Len(messages'.messages)] = last'.a.resp.body.message]_vars

C24_Witness ==
    /\ last.op = "ai"
    /\ last.ret.k = "none"
    /\ HasClear(last.a.line)
    /\ Kinds(trace) = <<"clear", "log", "assemble", "log", "log", "POST", "log", "display", "log">>
    /\ trace[1].d >= 2
    /\ Len(logs.logs) > 5
    /\ logs.logs[Len(logs.logs)] = Entry("I", "AI response display completed.")

-----------------------------------------------------------------------------
(* The header line of Logs.show.                                           *)

\* C25: on a non-empty log the header printed by Logs.show(limit) states the
\* number of entries displayed below it, min(limit, total), for every limit
\* and total (5 when the limit is 20 and the log holds 5 entries).  It is stated
\* for the limits of at least 1: what show(0) displays is the matter of C15.
C25_HeaderStatesShown ==
    [][(last'.op = "logs_show" /\ logs.logs # <<>> /\ last'.a.item_number >= 1) =>
          LET shown == Smaller(last'.a.item_number, Len(logs.logs))
          IN /\ trace'[1].d.kind = "header"
             /\ trace'[1].d.n = shown
             /\ trace'[1].d.n = Len(ShownEntries(trace'))
             /\ trace'[1].d.text = "(Displaying the most recent " \o IntStr(shown) \o " records)"]_vars

-----------------------------------------------------------------------------
(* What is rendered: show called by the cell magic and on its own.         *)

NextRender ==
    \/ AiCommand({<<>>, <<"--clear">>, <<"--format", "raw">>}, {"hello"}, {"absent"},
                 {Failed("HTTPError"), Answer("dict", TRUE, ReplyAssistant),
                  Answer("dict", TRUE, ReplyUserRole)})
    \/ MessagesShow
    \/ MessagesClear

SpecRender == Init /\ [][NextRender]_vars

\* What a trace rendered: its print and display events, in order.
Renders(tr) == SelectSeq(tr, LAMBDA ev : ev.e \in {"print", "display"})

\* C26: whenever %%ai renders, the content shown is that of the most recently
\* appended message, which is the reply appended by the launch of this same
\* run (never the prompt or an earlier reply), and in styled mode the label is
\* the session and assistant counters as they are once that reply is counted;
\* show itself changes no state and does nothing on an empty history.
C26_RendersNewestReply ==
    [][/\ (last'.op = "ai" /\ Renders(trace') # <<>>) =>
             LET shown == Renders(trace')[1]
                 raw == parse_ai(last'.a.line).format = "raw"
                 reply == last'.a.resp.body.message
             IN /\ Len(Renders(trace')) = 1
                /\ HoldsMessage(last'.a.resp)
                /\ messages'.messages[Len(messages'.messages)] = reply
                /\ shown.e = (IF raw THEN "print" ELSE "display")
                /\ raw => shown.d = reply.content
                /\ ~raw => /\ shown.d.content = reply.content
                           /\ shown.d.label = "Session:[" \o IntStr(messages'.session_counter)
                                              \o "." \o IntStr(messages'.ai_counter) \o "]"
                /\ messages'.ai_counter = (IF HasClear(last'.a.line) THEN 0 ELSE messages.ai_counter) + 1
       /\ last'.op = "show" =>
             /\ messages' = messages /\ backend' = backend /\ logs' = logs
             /\ messages.messages = <<>> => (trace' = <<>> /\ last'.ret.k = "none")]_vars

C26_Witness ==
    /\ last.op = "ai"
    /\ Len(messages.messages) = 4
    /\ messages.messages[2].content = "hi there"
    /\ Len(Renders(trace)) = 1
    /\ Renders(trace)[1].e = "display"
    /\ Renders(trace)[1].d.content = "echo"
    /\ Renders(trace)[1].d.label = "Session:[2.2]"

-----------------------------------------------------------------------------
(* The counters against the length of the history.                         *)

\* C27: in every state reachable by assemble, launch and clear on the one
\* history of the process, the number of messages is the user counter plus
\* the assistant counter.
C27_LengthIsCounterSum ==
    Len(messages.messages) = messages.user_counter + messages.ai_counter

C27_Witness ==
    /\ Len(messages.messages) = 3
    /\ messages.user_counter = 2
    /\ messages.ai_counter = 1
    /\ messages.session_counter = 2
    /\ last.op = "launch"
    /\ last.ret.k = "tuple" /\ last.ret.ok

-----------------------------------------------------------------------------
(* The prompt of a cell whose exchange failed.                             *)

\* A run of %%ai that sent its request and got a failure for it.
FailedExchange(l, tr) ==
    l.op = "ai" /\ CountEv(tr, "POST") = 1 /\ ExchangeFailed(l.a.resp)

\* The request of a run holds a user message right after a user message.
SendsTwoUserMessages(tr) ==
    LET sent == SelectSeq(tr, LAMBDA ev : ev.e = "POST")[1].d.json.messages
        n == Len(sent)
    IN n >= 2 /\ sent[n - 1].role = "user" /\ sent[n].role = "user"

\* C28, as stated: a %%ai run whose chat exchange fails leaves a history
\* exactly one message longer than before the command, the new user message
\* last, and a user counter one higher.
C28_OneLongerThanBefore ==
    [][FailedExchange(last', trace') =>
          /\ Len(messages'.messages) = Len(messages.messages) + 1
          /\ messages'.messages[Len(messages'.messages)].role = "user"
          /\ messages'.messages[Len(messages'.messages)].content = last'.a.cell
          /\ messages'.user_counter = messages.user_counter + 1]_vars

\* C28, amended: a %%ai run whose chat exchange fails does not roll back its
\* prompt.  Counted from the history as the run's own --clear, if any, left it
\* (empty, user counter 0), the history is exactly one message longer, the new
\* user message last, the user counter is one higher and the assistant counter
\* unchanged; the next run without --clear that sends a request sends two
\* consecutive user messages.
C28_PromptNotRolledBack ==
    [][/\ FailedExchange(last', trace') =>
             LET cleared == HasClear(last'.a.line)
                 kept == IF cleared THEN <<>> ELSE messages.messages
                 n == Len(messages'.messages)
             IN /\ n = Len(kept) + 1
                /\ SubSeq(messages'.messages, 1, n - 1) = kept
                /\ messages'.messages[n].role = "user"
                /\ messages'.messages[n].content = last'.a.cell
                /\ messages'.user_counter = (IF cleared THEN 0 ELSE messages.user_counter) + 1
                /\ messages'.ai_counter = (IF cleared THEN 0 ELSE messages.ai_counter)
       /\ (/\ FailedExchange(last, trace)
           /\ last'.op = "ai" /\ ~HasClear(last'.a.line)
           /\ CountEv(trace', "POST") = 1) => SendsTwoUserMessages(trace')]_vars

C28_Witness ==
    /\ FailedExchange(last, trace)
    /\ ~HasClear(last.a.line)
    /\ SendsTwoUserMessages(trace)
    /\ Len(messages.messages) = 2
    /\ messages.user_counter = 2

-----------------------------------------------------------------------------
(* A cleared session whose prompt could not be assembled.                  *)

\* A run of %%ai with --clear whose line parsed and that sent no request: its
\* assembly failed.
ClearedThenStopped(l, tr) ==
    /\ l.op = "ai"
    /\ parse_ai(l.a.line).ok
    /\ HasClear(l.a.line)
    /\ CountEv(tr, "POST") = 0

\* C29: a %%ai run with --clear whose assembly then fails has cleared all the
\* same: afterwards the history is empty, the user and assistant counters are
\* 0, the session counter is one higher than before the run, and the log
\* gained the Info entry "Cleared session memory." followed by the Error entry.
C29_ClearedBeforeFailure ==
    [][ClearedThenStopped(last', trace') =>
          /\ messages'.messages = <<>>
          /\ messages'.user_counter = 0
          /\ messages'.ai_counter = 0
          /\ messages'.session_counter = messages.session_counter + 1
          /\ Len(NewEntries) = 2
          /\ NewEntries[1] = Entry("I", "Cleared session memory.")
          /\ NewEntries[2].level = "E"
          /\ NewEntries[2].message =
                image2base64(parse_ai(last'.a.line).image, last'.a.fstat).result
          /\ last'.ret = RetNone]_vars

C29_Witness ==
    /\ ClearedThenStopped(last, trace)
    /\ trace[1].e = "clear" /\ trace[1].d >= 2
    /\ messages.messages = <<>>
    /\ messages.session_counter = 3
    /\ Len(logs.logs) >= 2
    /\ logs.logs[Len(logs.logs) - 1] = Entry("I", "Cleared session memory.")
    /\ logs.logs[Len(logs.logs)].level = "E"

-----------------------------------------------------------------------------
(* Two instances of Messages and of Logs in one process.                   *)

\* assemble called on the second Messages instance.
TwinAssemble(Cs) ==
    /\ Len(messages.messages) < MaxHistory
    /\ \E content \in Cs :
          LET r == assemble(Bound(messages.messages, twin), content, PyNone, "absent")
              n == Rebound(twin, Counters(messages), r)
          IN /\ messages' = Bound(n.shared, n.other)
             /\ twin' = n.own
             /\ last' = [op |-> "twin_assemble", a |-> [content |-> content], ret |-> r.ret]
             /\ trace' = r.trace
    /\ UNCHANGED <<backend, logs, clears, ui>>

\* clear called on the second Messages instance.
TwinClear ==
    /\ twin.session_counter < MaxSession
    /\ LET r == clear(Bound(messages.messages, twin))
           n == Rebound(twin, Counters(messages), r)
       IN /\ messages' = Bound(n.shared, n.other)
          /\ twin' = n.own
          /\ last' = [op |-> "twin_clear", a |-> <<>>, ret |-> r.ret]
          /\ trace' = r.trace
    /\ clears' = clears + 1
    /\ UNCHANGED <<backend, logs, ui>>

\* info called on a second Logs instance: `logs` is the list of the class,
\* which append changes in place.
TwinInfo(Ms) ==
    /\ Len(logs.logs) < MaxDirectLogs
    /\ \E message \in Ms :
          LET r == info(logs, message)
          IN /\ logs' = r.self
             /\ last' = [op |-> "twin_info", a |-> [message |-> message], ret |-> RetNone]
             /\ trace' = r.trace
    /\ UNCHANGED <<messages, backend, clears, ui, twin>>

NextTwin ==
    \/ MessagesAssemble({"hello"}, {PyNone}, {"absent"})
    \/ MessagesClear
    \/ TwinAssemble({"again"})
    \/ TwinClear
    \/ TwinInfo({"note"})
    \/ LogsShow({20})

SpecTwin == Init /\ [][NextTwin]_vars

\* C30: the message list and the log list are shared by all instances of
\* Messages and of Logs, while the counters are held per instance: an assemble
\* or a clear through one instance changes the messages seen through the
\* other and the counters of the acting instance only, and an entry written
\* through a second Logs instance is in the log the first one shows.
C30_SharedListsOwnCounters ==
    [][/\ last'.op \in {"assemble", "clear"} => twin' = twin
       /\ last'.op = "assemble" =>
             /\ Bound(messages'.messages, twin').messages
                    = Append(messages.messages, Dict({"role", "content"}, "user", last'.a.content, <<>>))
             /\ messages'.user_counter = messages.user_counter + 1
       /\ last'.op = "clear" =>
             /\ Bound(messages'.messages, twin').messages = <<>>
             /\ messages'.session_counter = messages.session_counter + 1
       /\ last'.op \in {"twin_assemble", "twin_clear"} => Counters(messages') = Counters(messages)
       /\ last'.op = "twin_assemble" =>
             /\ messages'.messages
                    = Append(messages.messages, Dict({"role", "content"}, "user", last'.a.content, <<>>))
             /\ twin' = [twin EXCEPT !.user_counter = @ + 1]
       /\ last'.op = "twin_clear" =>
             /\ messages'.messages = <<>>
             /\ twin' = [session_counter |-> twin.session_counter + 1,
                         user_counter |-> 0, ai_counter |-> 0]
       /\ last'.op = "twin_info" =>
             logs'.logs = Append(logs.logs, Entry("I", last'.a.message))
       /\ (last'.op = "logs_show" /\ last.op = "twin_info") =>
             ShownEntries(trace') = logs.logs]_vars

\* The second instance cleared the two messages the first one had assembled:
\* the first still counts two user messages and holds none.
C30_Witness ==
    /\ last.op = "twin_clear"
    /\ messages.messages = <<>>
    /\ messages.user_counter = 2
    /\ messages.session_counter = 1
    /\ twin.session_counter = 2
    /\ messages.user_counter + messages.ai_counter # Len(messages.messages)

====
